---- MODULE Spec2Model ----
(***************************************************************************)
(* Model of the repository scanner of github-project-assistant:            *)
(*   RepoScanner (gpa/commands/scan.py), the findings normalizer of        *)
(*   GroqService.generate_scanned_result (gpa/services/groq_service.py)    *)
(*   the `scan run` command, the parsing of the first variant of the       *)
(*   command, and POST /api/gpa (gpa/api.py).                              *)
(* Strings are sequences of one-character strings.                         *)
(***************************************************************************)
EXTENDS Integers, Sequences, FiniteSets, TLC

VARIABLES
    \* harness of is_analyzable_file
    file_path,      \* argument file_path
    file_size,      \* argument file_size
    analyzable,     \* returned value
    fpc,            \* "idle" | "input" | "returned"
    \* harness of chunk_files
    files,          \* argument files (a file is named by a number)
    batch_size,     \* self.max_files_per_batch
    chunks,         \* returned list of batches
    chunk_raised,   \* chunk_files raised ValueError
    cpc,            \* "idle" | "input" | "returned"
    \* harness of the findings normalizer
    src,            \* the values the analyzer meant to report
    wrap,           \* how the analyzer wrote them down
    completion,     \* outcome of the completion request
    scanned,        \* value returned by generate_scanned_result
    parsed,         \* value returned by parse_findings
    step,           \* generate_scanned_result: the step that made findings
    extracted,      \* generate_scanned_result: findings before the cleaning
    evaluated,      \* analyze_repo of the first variant called eval
    legacy,         \* value returned by analyze_repo of the first variant
    ppc,            \* "idle" | "input" | "scanned" | "parsed" | "legacy"
    \* the command `scan run`
    github_token,   \* a token is configured (option, environment or config)
    max_files_per_batch, \* --files-per-batch
    category,       \* --category, "" when not given
    severity,       \* --severity, "" when not given
    pc,             \* position of run / analyze_repo / get_repo_files
    contents,       \* get_repo_files: queue of nodes still to visit
    all_files,      \* get_repo_files: files gathered (by node)
    batches,        \* analyze_repo: result of chunk_files
    batch_index,    \* analyze_repo: i of the batch loop
    in_flight,      \* completion requests issued and not yet answered
    all_findings,   \* analyze_repo: the aggregate under construction
    aggregate,      \* value returned by analyze_repo
    findings,       \* run: findings, filtered in place
    displayed,      \* findings handed to display_results
    summary,        \* display_results: << >> or <<the totals printed>>
    console,        \* messages printed, in order
    exit_code,      \* -1 while running, then the exit status of the process
    \* history of the scan
    node_errors,    \* per-node failures of the walk: <<node, exception>>
    visited,        \* nodes taken from the queue
    submitted,      \* batches whose completion request was issued, in order
    analyzed,       \* batches given to analyze_batch, in order
    outcomes,       \* per analyzed batch: how the analyzer call ended
    returned,       \* per analyzed batch: value returned by analyze_batch
    \* POST /api/gpa
    body_given,     \* the request has a JSON body
    command,        \* body["command"]
    timeout,        \* body["timeout"], in seconds
    working_dir,    \* body["working_dir"]: its name and what is at that path
    process,        \* "none" | "running" | "exited" | "terminated" | "killed"
    elapsed,        \* seconds that process.wait has waited
    output_lines,   \* lines read from the stdout of the process
    error_lines,    \* lines read from the stderr of the process
    timed_out,      \* process.wait raised TimeoutExpired
    cmd_result,     \* value returned by run_command_with_timeout
    http,           \* the response: status code and body
    apc,            \* position of post / run_command_with_timeout
    \* GitService
    repo,           \* self.repo: 0 is None, k the Repo object made by call k
    git_ops,        \* commands given to git by the instance
    git_calls,      \* the calls made on the instance: method and success
    git_returned,   \* what the last call returned or raised
    gpc             \* "idle" | "ready"

filterVars == <<file_path, file_size, analyzable, fpc>>

chunkVars == <<files, batch_size, chunks, chunk_raised, cpc>>

parseVars == <<src, wrap, completion, scanned, parsed, step, extracted, evaluated, legacy, ppc>>

apiVars == <<body_given, command, timeout, working_dir, process, elapsed, output_lines,
             error_lines, timed_out, cmd_result, http, apc>>

gitVars == <<repo, git_ops, git_calls, git_returned, gpc>>

harnessVars == <<filterVars, chunkVars, parseVars, apiVars, gitVars>>

configVars == <<github_token, max_files_per_batch, category, severity>>

walkVars == <<contents, all_files, node_errors, visited>>

batchVars == <<batches, batch_index, in_flight, all_findings, submitted, analyzed, outcomes,
               returned>>

runVars == <<aggregate, findings, displayed, summary, console, exit_code>>

scanVars == <<configVars, pc, walkVars, batchVars, runVars>>

vars == <<harnessVars, scanVars>>

----------------------------------------------------------------------------
(* Bounds *)

MaxPathLen == 5

MaxFiles == 12

MaxBatchSize == 5

MaxFindings == 2

MaxScanBatch == 2

MaxTimeout == 2

MaxLines == 1

MaxCalls == 3

----------------------------------------------------------------------------
(* Strings *)

PathChars == {"a", "c", "p", "y", "P", ".", "/"}

\* str.lower() on one character
LowerChar(ch) ==
    CASE ch = "P" -> "p"
      [] ch = "Y" -> "y"
      [] ch = "C" -> "c"
      [] ch = "J" -> "j"
      [] ch = "S" -> "s"
      [] OTHER -> ch

\* str.lower()
Lower(s) == [k \in 1..Len(s) |-> LowerChar(s[k])]

\* str.rfind(ch), 1-based; 0 when ch does not occur (Python: -1)
RFind(s, ch) ==
    IF \E k \in 1..Len(s) : s[k] = ch
    THEN CHOOSE k \in 1..Len(s) : s[k] = ch /\ \A m \in (k+1)..Len(s) : s[m] # ch
    ELSE 0

\* os.path.splitext(p)[1]: the suffix from the last dot of the last path
\* component, unless every character of the component before it is a dot
SplitExt(p) ==
    LET sepIndex == RFind(p, "/")
        dotIndex == RFind(p, ".")
    IN  IF dotIndex > sepIndex
           /\ \E k \in (sepIndex + 1)..(dotIndex - 1) : p[k] # "."
        THEN SubSeq(p, dotIndex, Len(p))
        ELSE << >>

\* All strings over S of length 0..n
RECURSIVE StringsUpTo(_, _)
StringsUpTo(S, n) ==
    IF n = 0 THEN { << >> }
    ELSE LET shorter == StringsUpTo(S, n - 1)
         IN  shorter \cup { Append(s, ch) : s \in { t \in shorter : Len(t) = n - 1 }, ch \in S }

----------------------------------------------------------------------------
(* RepoScanner configuration *)

max_file_size == 100000

file_extensions == {
    <<".", "p", "y">>, <<".", "j", "s">>, <<".", "t", "s">>,
    <<".", "j", "a", "v", "a">>, <<".", "c", "p", "p">>, <<".", "c">>,
    <<".", "h">>, <<".", "h", "p", "p">>, <<".", "c", "s">>,
    <<".", "g", "o">>, <<".", "r", "b">>, <<".", "p", "h", "p">>,
    <<".", "s", "w", "i", "f", "t">>, <<".", "k", "t">>, <<".", "r", "s">> }

\* Mutant: the size ceiling is exclusive
is_analyzable_file_excl(path, size) ==
    IF size >= max_file_size THEN FALSE
    ELSE LET extension == Lower(SplitExt(path))
         IN  ~ (extension = << >> \/ extension \notin file_extensions)

\* RepoScanner.is_analyzable_file
is_analyzable_file(path, size) ==
    IF size > max_file_size THEN FALSE
    ELSE LET extension == Lower(SplitExt(path))
         IN  IF extension = << >> \/ extension \notin file_extensions
             THEN FALSE
             ELSE TRUE

----------------------------------------------------------------------------
(* JSON values and analyzer text                                           *)
(* A decoded value is a record [t, v]: t is the Python type of the value   *)
(* ("str", "num", "null", "list", "dict"), v its content (a string, a      *)
(* sequence of values, a function from keys to values).                    *)
(* Analyzer text is a sequence of lexical tokens: the JSON punctuation     *)
(* "{" "}" "[" "]" ":" ",", the literals "null" and "1", whitespace "ws",  *)
(* a word of prose "w", and any other token is the string literal of that  *)
(* content.                                                                *)

Str(s) == [t |-> "str", v |-> s]
Num == [t |-> "num", v |-> "1"]
None == [t |-> "null", v |-> ""]
List(seq) == [t |-> "list", v |-> seq]
Dict(f) == [t |-> "dict", v |-> f]

EmptyDict == [k \in {} |-> None]

\* d[k] = val on a dict content
Put(f, k, val) == [x \in (DOMAIN f) \cup {k} |-> IF x = k THEN val ELSE f[x]]

\* dict.get(key, default)
Get(d, key, default) == IF key \in DOMAIN d.v THEN d.v[key] ELSE default

NonStringTokens == {"{", "}", "[", "]", ":", ",", "null", "1", "ws", "w"}

IsStringToken(tok) == tok \notin NonStringTokens

ParseFail == [ok |-> FALSE, val |-> None, next |-> 0]

ParseOk(val, next) == [ok |-> TRUE, val |-> val, next |-> next]

RECURSIVE ParseValue(_, _), ParseElements(_, _, _), ParseMembers(_, _, _)

\* json decoder: the value starting at token i
ParseValue(toks, i) ==
    IF i > Len(toks) THEN ParseFail
    ELSE CASE toks[i] = "null" -> ParseOk(None, i + 1)
           [] toks[i] = "1" -> ParseOk(Num, i + 1)
           [] toks[i] = "[" ->
                IF i + 1 <= Len(toks) /\ toks[i + 1] = "]"
                THEN ParseOk(List(<< >>), i + 2)
                ELSE ParseElements(toks, i + 1, << >>)
           [] toks[i] = "{" ->
                IF i + 1 <= Len(toks) /\ toks[i + 1] = "}"
                THEN ParseOk(Dict(EmptyDict), i + 2)
                ELSE ParseMembers(toks, i + 1, EmptyDict)
           [] IsStringToken(toks[i]) -> ParseOk(Str(toks[i]), i + 1)
           [] OTHER -> ParseFail

\* json decoder: array elements from token i, after "[" or ","
ParseElements(toks, i, acc) ==
    LET r == ParseValue(toks, i)
    IN  IF ~ r.ok \/ r.next > Len(toks) THEN ParseFail
        ELSE IF toks[r.next] = "]" THEN ParseOk(List(Append(acc, r.val)), r.next + 1)
        ELSE IF toks[r.next] = "," THEN ParseElements(toks, r.next + 1, Append(acc, r.val))
        ELSE ParseFail

\* json decoder: object members from token i, after "{" or ","
ParseMembers(toks, i, acc) ==
    IF i + 1 > Len(toks) \/ ~ IsStringToken(toks[i]) \/ toks[i + 1] # ":"
    THEN ParseFail
    ELSE LET r == ParseValue(toks, i + 2)
         IN  IF ~ r.ok \/ r.next > Len(toks) THEN ParseFail
             ELSE IF toks[r.next] = "}"
                  THEN ParseOk(Dict(Put(acc, toks[i], r.val)), r.next + 1)
             ELSE IF toks[r.next] = ","
                  THEN ParseMembers(toks, r.next + 1, Put(acc, toks[i], r.val))
             ELSE ParseFail

\* json.loads(text): whitespace between tokens is insignificant, the whole
\* text must be one value; ok = FALSE stands for json.JSONDecodeError
json_loads(text) ==
    LET toks == SelectSeq(text, LAMBDA tok : tok # "ws")
        r == ParseValue(toks, 1)
    IN  IF r.ok /\ r.next = Len(toks) + 1
        THEN [ok |-> TRUE, val |-> r.val]
        ELSE [ok |-> FALSE, val |-> None]

\* str.strip()
RECURSIVE strip(_)
strip(text) ==
    IF text = << >> THEN text
    ELSE IF Head(text) = "ws" THEN strip(Tail(text))
    ELSE IF text[Len(text)] = "ws" THEN strip(SubSeq(text, 1, Len(text) - 1))
    ELSE text

Closer(open) == IF open = "{" THEN "}" ELSE "]"

\* Position i starts a match of \{[\s\S]*\}|\[[\s\S]*\]
MatchesAt(text, i) ==
    /\ text[i] \in {"{", "["}
    /\ \E j \in (i + 1)..Len(text) : text[j] = Closer(text[i])

\* Mutant: the match ends at the first closing bracket of its kind
re_search_lazy(text) ==
    IF \E i \in 1..Len(text) : MatchesAt(text, i)
    THEN LET i == CHOOSE k \in 1..Len(text) :
                    MatchesAt(text, k) /\ \A m \in 1..(k - 1) : ~ MatchesAt(text, m)
             j == CHOOSE k \in (i + 1)..Len(text) :
                    /\ text[k] = Closer(text[i])
                    /\ \A m \in (i + 1)..(k - 1) : text[m] # Closer(text[i])
         IN  [found |-> TRUE, group |-> SubSeq(text, i, j)]
    ELSE [found |-> FALSE, group |-> << >>]

\* re.search(r"\{[\s\S]*\}|\[[\s\S]*\]", text): the leftmost position where an
\* alternative matches, extended greedily to the last closing bracket of
\* its kind; found = FALSE stands for None
re_search(text) ==
    IF \E i \in 1..Len(text) : MatchesAt(text, i)
    THEN LET i == CHOOSE k \in 1..Len(text) :
                    MatchesAt(text, k) /\ \A m \in 1..(k - 1) : ~ MatchesAt(text, m)
             j == RFind(text, Closer(text[i]))
         IN  [found |-> TRUE, group |-> SubSeq(text, i, j)]
    ELSE [found |-> FALSE, group |-> << >>]

----------------------------------------------------------------------------
(* Findings *)

RequiredKeys == {"severity", "category", "description"}

FindingKeys == {"severity", "category", "description", "location", "recommendation"}

Finding(sev, cat, desc, loc, rec) ==
    Dict([severity |-> Str(sev), category |-> Str(cat), description |-> Str(desc),
          location |-> Str(loc), recommendation |-> Str(rec)])

\* groq_service.py: the finding of the bare except around the second decode
ParsingIssuesFinding ==
    Finding("Medium", "Quality", "Code analysis completed with parsing issues",
            "Repository-wide",
            "Review the codebase manually or try scanning specific directories")

\* Mutant: the finding for a text without JSON structure is Low
UnavailableFindingLow ==
    Finding("Low", "Quality",
            "Code analysis completed but structured results unavailable",
            "Repository-wide",
            "Try scanning with different parameters or review specific files")

\* groq_service.py: the finding for a text without JSON structure
UnavailableFinding ==
    Finding("Medium", "Quality",
            "Code analysis completed but structured results unavailable",
            "Repository-wide",
            "Try scanning with different parameters or review specific files")

\* groq_service.py: the finding that stands for an empty cleaned list
NoIssuesFinding ==
    Finding("Low", "Info", "No significant issues found", "Repository-wide",
            "Continue monitoring and following best practices")

\* groq_service.py: the finding of the outer except (description is
\* "Analysis error: " followed by the exception text)
AnalysisErrorFinding ==
    Finding("High", "Error", "Analysis error", "N/A",
            "Check your Groq API configuration and try again")

\* scan.py: the finding of the except of analyze_repo; message is
\* "Analysis failed: " followed by the exception text
AnalysisFailedFinding(message) ==
    Finding("High", "Error", message, "N/A",
            "Please check your configuration and try again")

\* The keys of a dict content in a fixed order of iteration
RECURSIVE KeysOf(_)
KeysOf(f) ==
    IF DOMAIN f = {} THEN << >>
    ELSE LET k == CHOOSE x \in DOMAIN f : TRUE
         IN  <<Str(k)>> \o KeysOf([x \in (DOMAIN f) \ {k} |-> f[x]])

\* `for x in val`: the elements of a list, the keys of a dict, the
\* characters of a str (strings, kept here as the one string); a number or
\* None is not iterable (TypeError)
Iterate(val) ==
    CASE val.t = "list" -> [ok |-> TRUE, items |-> val.v]
      [] val.t = "dict" -> [ok |-> TRUE, items |-> KeysOf(val.v)]
      [] val.t = "str" -> [ok |-> TRUE, items |-> IF val.v = "" THEN << >> ELSE <<val>>]
      [] OTHER -> [ok |-> FALSE, items |-> << >>]

\* Mutant: a single object is not wrapped
ShapeFindingsUnwrapped(result) ==
    IF result.t = "dict" /\ "findings" \in DOMAIN result.v THEN result.v["findings"]
    ELSE result

\* generate_scanned_result: the shape rules applied to a decoded value
ShapeFindings(result) ==
    IF result.t = "dict" /\ "findings" \in DOMAIN result.v THEN result.v["findings"]
    ELSE IF result.t = "list" THEN result
    ELSE List(<<result>>)

\* Mutant: the defaults of location and recommendation are those of
\* parse_findings
CleanFindingOtherDefaults(finding) ==
    Dict([severity |-> Get(finding, "severity", Str("Medium")),
          category |-> Get(finding, "category", Str("Quality")),
          description |-> Get(finding, "description", Str("No description provided")),
          location |-> Get(finding, "location", Str("N/A")),
          recommendation |-> Get(finding, "recommendation", Str(""))])

\* generate_scanned_result: cleaned_finding
CleanFinding(finding) ==
    Dict([severity |-> Get(finding, "severity", Str("Medium")),
          category |-> Get(finding, "category", Str("Quality")),
          description |-> Get(finding, "description", Str("No description provided")),
          location |-> Get(finding, "location", Str("Unknown")),
          recommendation |-> Get(finding, "recommendation",
                                 Str("No recommendation provided"))])

\* Mutant: a dict without severity, category or description is dropped
RECURSIVE CleanFindingsRequired(_)
CleanFindingsRequired(items) ==
    IF items = << >> THEN << >>
    ELSE IF Head(items).t = "dict" /\ RequiredKeys \subseteq DOMAIN Head(items).v
         THEN <<CleanFinding(Head(items))>> \o CleanFindingsRequired(Tail(items))
         ELSE CleanFindingsRequired(Tail(items))

\* generate_scanned_result: the loop that keeps and cleans the dicts
RECURSIVE CleanFindings(_)
CleanFindings(items) ==
    IF items = << >> THEN << >>
    ELSE IF Head(items).t = "dict"
         THEN <<CleanFinding(Head(items))>> \o CleanFindings(Tail(items))
         ELSE CleanFindings(Tail(items))

\* Mutant: an empty cleaned list is returned as it is
OrNoIssuesMissing(cleaned_findings) == cleaned_findings

\* generate_scanned_result: `return cleaned_findings or [...]`
OrNoIssues(cleaned_findings) ==
    IF cleaned_findings = << >> THEN <<NoIssuesFinding>> ELSE cleaned_findings

\* generate_scanned_result: the decode ladder, from response_text to findings
DecodeFindings(response_text) ==
    LET first == json_loads(response_text)
    IN  IF first.ok THEN ShapeFindings(first.val)
        ELSE LET json_match == re_search(response_text)
             IN  IF json_match.found
                 THEN LET second == json_loads(json_match.group)
                      IN  IF second.ok THEN ShapeFindings(second.val)
                          ELSE List(<<ParsingIssuesFinding>>)
                 ELSE List(<<UnavailableFinding>>)

\* generate_scanned_result: the step of the ladder that makes findings: 1 the
\* decode of the whole text, 2 the decode of the match of the search, 3 one
\* of the two fixed findings
DecodeStep(response_text) ==
    LET first == json_loads(response_text)
    IN  IF first.ok THEN 1
        ELSE LET json_match == re_search(response_text)
             IN  IF json_match.found /\ json_loads(json_match.group).ok THEN 2 ELSE 3

\* Mutant: a failed completion request yields no finding
CompletionFailedEmpty == << >>

\* generate_scanned_result: what the outer except returns
CompletionFailed == <<AnalysisErrorFinding>>

\* GroqService.generate_scanned_result from the completion request on.
\* response.kind: "raise" (the request raises: transport, authentication),
\* "none" (the message has no content), "text" (response.text is returned)
generate_scanned_result(response) ==
    IF response.kind # "text" THEN CompletionFailed
    ELSE LET shaped == DecodeFindings(strip(response.text))
             it == Iterate(shaped)
         IN  IF ~ it.ok THEN CompletionFailed
             ELSE OrNoIssues(CleanFindings(it.items))

\* `key in finding` for the three required keys
HasRequiredKeys(finding) ==
    CASE finding.t = "dict" -> RequiredKeys \subseteq DOMAIN finding.v
      [] finding.t = "list" ->
            \A key \in RequiredKeys : \E k \in 1..Len(finding.v) : finding.v[k] = Str(key)
      [] OTHER -> FALSE

\* parse_findings: the element makes the loop raise (`in` on a number or
\* None, .get on a list)
NormalizeRaises(finding) ==
    \/ finding.t \in {"num", "null"}
    \/ finding.t = "list" /\ HasRequiredKeys(finding)

\* Mutant: the location given by the analyzer is replaced by the default
NormalizeFindingResetLocation(finding) ==
    Dict([severity |-> Get(finding, "severity", Str("Unknown")),
          category |-> Get(finding, "category", Str("Unknown")),
          description |-> Get(finding, "description", Str("")),
          location |-> Str("N/A"),
          recommendation |-> Get(finding, "recommendation", Str(""))])

\* parse_findings: the normalized finding
NormalizeFinding(finding) ==
    Dict([severity |-> Get(finding, "severity", Str("Unknown")),
          category |-> Get(finding, "category", Str("Unknown")),
          description |-> Get(finding, "description", Str("")),
          location |-> Get(finding, "location", Str("N/A")),
          recommendation |-> Get(finding, "recommendation", Str(""))])

\* parse_findings: the loop that keeps and normalizes the findings with the
\* three required keys
RECURSIVE NormalizeFindings(_)
NormalizeFindings(items) ==
    IF items = << >> THEN << >>
    ELSE IF HasRequiredKeys(Head(items))
         THEN <<NormalizeFinding(Head(items))>> \o NormalizeFindings(Tail(items))
         ELSE NormalizeFindings(Tail(items))

\* RepoScanner.parse_findings. response is a str ([t |-> "text", v |-> the
\* tokens]) or an already decoded value; every exception returns []
parse_findings(response) ==
    LET json_str == re_search(response.v)
        decoded == json_loads(json_str.group)
        decoded_findings == IF response.t = "text" THEN decoded.val ELSE response
        as_list == IF decoded_findings.t = "dict" THEN List(<<decoded_findings>>)
                   ELSE decoded_findings
        it == Iterate(as_list)
    IN  IF response.t = "text" /\ ~ json_str.found THEN << >>
        ELSE IF response.t = "text" /\ ~ decoded.ok THEN << >>
        ELSE IF ~ it.ok THEN << >>
        ELSE IF \E k \in 1..Len(it.items) : NormalizeRaises(it.items[k]) THEN << >>
        ELSE NormalizeFindings(it.items)

\* The first variant of the command (gpa/commands/scan.py): the finding of
\* the except around its parsing
ParsingFailedFinding ==
    Finding("Medium", "Quality", "Analysis completed but results parsing failed", "N/A",
            "Please check the scan logs for details")

\* The first variant: `if field not in finding: finding[field] = "Unknown"`
FillUnknown(finding) ==
    Dict([key \in FindingKeys |-> Get(finding, key, Str("Unknown"))])

\* The first variant: eval(json_str.group()). The text is run as a Python
\* expression; a JSON text without null is also a Python literal with the
\* same value, any other text raises here (NameError, SyntaxError)
eval(text) ==
    LET decoded == json_loads(text)
    IN  IF decoded.ok /\ \A k \in 1..Len(text) : text[k] # "null" THEN decoded
        ELSE [ok |-> FALSE, val |-> None]

\* The first variant: RepoScanner.analyze_repo from the response of
\* generate_scanned_result on. A str is searched for a bracketed part and
\* that part is given to eval; any other value is taken as the findings.
\* evaluated tells whether eval was called.
analyze_repo(response) ==
    LET json_str == re_search(response.v)
        is_str == response.t = "text"
        run_eval == is_str /\ json_str.found
        value == eval(json_str.group)
        response_findings == IF is_str THEN value.val ELSE response
        as_list == IF response_findings.t = "dict" THEN <<response_findings>>
                   ELSE response_findings.v
        raises ==
            \/ is_str /\ ~ json_str.found
            \/ run_eval /\ ~ value.ok
            \/ response_findings.t \notin {"list", "dict"}
            \/ \E k \in 1..Len(as_list) : as_list[k].t # "dict"
    IN  [evaluated |-> run_eval,
         findings |-> IF raises THEN <<ParsingFailedFinding>>
                      ELSE [k \in 1..Len(as_list) |-> FillUnknown(as_list[k])]]

----------------------------------------------------------------------------
(* Batching *)

Min(a, b) == IF a < b THEN a ELSE b

\* Mutant: the slices overlap by one file
chunk_files_overlap(file_list, per_batch) ==
    IF per_batch = 0 THEN [raised |-> TRUE, batches |-> << >>]
    ELSE IF per_batch < 0 THEN [raised |-> FALSE, batches |-> << >>]
    ELSE LET n == Len(file_list)
             count == (n + per_batch - 1) \div per_batch
         IN  [raised |-> FALSE,
              batches |-> [k \in 1..count |->
                  SubSeq(file_list, (k - 1) * per_batch + 1,
                         Min(k * per_batch + 1, n))]]

\* RepoScanner.chunk_files: files[i : i + b] for i in range(0, len(files), b).
\* range raises ValueError for step 0 and is empty for a negative step.
chunk_files(file_list, per_batch) ==
    IF per_batch = 0 THEN [raised |-> TRUE, batches |-> << >>]
    ELSE IF per_batch < 0 THEN [raised |-> FALSE, batches |-> << >>]
    ELSE LET n == Len(file_list)
             count == (n + per_batch - 1) \div per_batch
         IN  [raised |-> FALSE,
              batches |-> [k \in 1..count |->
                  SubSeq(file_list, (k - 1) * per_batch + 1,
                         Min(k * per_batch, n))]]

----------------------------------------------------------------------------
(* Harnesses: a function is called once on inputs drawn from bounded sets *)

IdleFilter ==
    /\ file_path = << >>
    /\ file_size = 0
    /\ analyzable = FALSE
    /\ fpc = "idle"

IdleChunk ==
    /\ files = << >>
    /\ batch_size = 1
    /\ chunks = << >>
    /\ chunk_raised = FALSE
    /\ cpc = "idle"

IdleParse ==
    /\ src = << >>
    /\ wrap = "none"
    /\ completion = [kind |-> "text", text |-> << >>]
    /\ scanned = << >>
    /\ parsed = << >>
    /\ step = 0
    /\ extracted = None
    /\ evaluated = FALSE
    /\ legacy = << >>
    /\ ppc = "idle"

IdleScan ==
    /\ github_token = FALSE
    /\ max_files_per_batch = 1
    /\ category = ""
    /\ severity = ""
    /\ pc = "idle"
    /\ contents = << >>
    /\ all_files = << >>
    /\ batches = << >>
    /\ batch_index = 0
    /\ in_flight = 0
    /\ all_findings = << >>
    /\ aggregate = << >>
    /\ findings = << >>
    /\ displayed = << >>
    /\ summary = << >>
    /\ console = << >>
    /\ exit_code = -1
    /\ node_errors = {}
    /\ visited = {}
    /\ submitted = << >>
    /\ analyzed = << >>
    /\ outcomes = << >>
    /\ returned = << >>

NoResult == [output |-> << >>, error |-> << >>, status |-> 0]

NoResponse == [code |-> 0, body |-> << >>]

\* Nothing was returned or raised yet
NoReturn == [kind |-> "none", ok |-> FALSE, text |-> "", n |-> 0]

IdleGit ==
    /\ repo = 0
    /\ git_ops = << >>
    /\ git_calls = << >>
    /\ git_returned = NoReturn
    /\ gpc = "idle"

IdleApi ==
    /\ body_given = FALSE
    /\ command = ""
    /\ timeout = 1
    /\ working_dir = [name |-> << >>, at |-> "missing"]
    /\ process = "none"
    /\ elapsed = 0
    /\ output_lines = << >>
    /\ error_lines = << >>
    /\ timed_out = FALSE
    /\ cmd_result = NoResult
    /\ http = NoResponse
    /\ apc = "idle"

(* The file filter: every path over PathChars, the paths of the example of
   the specification, and sizes around the ceiling *)

FileSizes == {500, max_file_size, max_file_size + 1}

ExamplePaths == { <<"a", ".", "p", "y">>, <<"b", ".", "p", "n", "g">>,
                  <<"c", ".", "j", "s">> }

InitFilter ==
    /\ file_path \in StringsUpTo(PathChars, MaxPathLen) \cup ExamplePaths
    /\ file_size \in FileSizes
    /\ analyzable = FALSE
    /\ fpc = "input"
    /\ IdleChunk
    /\ IdleParse
    /\ IdleScan
    /\ IdleApi
    /\ IdleGit

CallIsAnalyzable ==
    /\ fpc = "input"
    /\ analyzable' = is_analyzable_file(file_path, file_size)
    /\ fpc' = "returned"
    /\ UNCHANGED <<file_path, file_size, chunkVars, parseVars, scanVars, apiVars, gitVars>>

NextFilter == CallIsAnalyzable

SpecFilter == InitFilter /\ [][NextFilter]_vars

(* The batcher: lists of 0..MaxFiles distinct files in every rotation, and
   batch sizes from -MaxBatchSize to MaxBatchSize *)

Rotation(n, r) == [k \in 1..n |-> ((k - 1 + r) % n) + 1]

InitChunk ==
    /\ \E n \in 0..MaxFiles : \E r \in 0..n :
          /\ r < n \/ n = 0
          /\ files = Rotation(n, r)
    /\ batch_size \in (0 - MaxBatchSize)..MaxBatchSize
    /\ chunks = << >>
    /\ chunk_raised = FALSE
    /\ cpc = "input"
    /\ IdleFilter
    /\ IdleParse
    /\ IdleScan
    /\ IdleApi
    /\ IdleGit

CallChunkFiles ==
    /\ cpc = "input"
    /\ LET r == chunk_files(files, batch_size)
       IN  /\ chunks' = r.batches
           /\ chunk_raised' = r.raised
    /\ cpc' = "returned"
    /\ UNCHANGED <<files, batch_size, filterVars, parseVars, scanVars, apiVars, gitVars>>

NextChunk == CallChunkFiles

SpecChunk == InitChunk /\ [][NextChunk]_vars

(* The normalizer: the analyzer means to report the values src (finding
   objects with some of the five keys, or a number) and writes them down in
   one of the forms Wraps; the text goes through generate_scanned_result and
   its result through parse_findings, as in analyze_batch *)

FieldOrder == <<"severity", "category", "description", "location", "recommendation">>

SampleValue(key) ==
    CASE key = "severity" -> "High"
      [] key = "category" -> "Security"
      [] key = "description" -> "x"
      [] key = "location" -> "src/a.py"
      [] key = "recommendation" -> "Fix it"

ObjectWith(keys) == Dict([k \in keys |-> Str(SampleValue(k))])

SampleKeySets ==
    { req \cup opt : req \in { RequiredKeys, {"category", "description"}, {} },
                     opt \in SUBSET {"location", "recommendation"} }

SampleValues == { ObjectWith(keys) : keys \in SampleKeySets } \cup { Num }

RECURSIVE SeqsUpTo(_, _)
SeqsUpTo(S, n) ==
    IF n = 0 THEN { << >> }
    ELSE LET shorter == SeqsUpTo(S, n - 1)
         IN  shorter \cup { Append(q, x) : q \in { t \in shorter : Len(t) = n - 1 }, x \in S }

RECURSIVE Dumps(_), DumpsElements(_), DumpsMembers(_, _)

\* The JSON text of a value
Dumps(val) ==
    CASE val.t = "str" -> <<val.v>>
      [] val.t = "num" -> <<"1">>
      [] val.t = "null" -> <<"null">>
      [] val.t = "list" -> <<"[">> \o DumpsElements(val.v) \o <<"]">>
      [] val.t = "dict" -> <<"{">> \o DumpsMembers(val.v, <<"findings">> \o FieldOrder) \o <<"}">>

DumpsElements(items) ==
    IF items = << >> THEN << >>
    ELSE IF Len(items) = 1 THEN Dumps(items[1])
    ELSE Dumps(items[1]) \o <<",">> \o DumpsElements(Tail(items))

DumpsMembers(f, order) ==
    IF order = << >> THEN << >>
    ELSE IF Head(order) \notin DOMAIN f THEN DumpsMembers(f, Tail(order))
    ELSE LET rest == DumpsMembers(f, Tail(order))
         IN  <<Head(order), ":">> \o Dumps(f[Head(order)])
             \o (IF rest = << >> THEN << >> ELSE <<",">> \o rest)

FindingsObject(values) == Dict([k \in {"findings"} |-> List(values)])

\* Forms in which the whole list src is written
ListWraps == {"object", "array", "prose_object", "prose_array", "padded",
              "greedy", "truncated"}

\* Forms that write the one value src[1]
ValueWraps == {"bare", "findings_value", "stray"}

\* Forms without a value
TextWraps == {"prose", "empty", "blank"}

\* The text of the completion
Written(w, values) ==
    CASE w = "object" -> Dumps(FindingsObject(values))
      [] w = "array" -> Dumps(List(values))
      [] w = "prose_object" -> <<"w">> \o Dumps(FindingsObject(values)) \o <<"w">>
      [] w = "prose_array" -> <<"w">> \o Dumps(List(values)) \o <<"w">>
      [] w = "padded" -> <<"ws">> \o Dumps(FindingsObject(values)) \o <<"ws">>
      [] w = "greedy" -> <<"w">> \o Dumps(FindingsObject(values)) \o <<"w", "}">>
      [] w = "truncated" ->
            LET text == Dumps(FindingsObject(values))
            IN  SubSeq(text, 1, Len(text) - 2)
      [] w = "bare" -> Dumps(values[1])
      [] w = "findings_value" -> Dumps(Dict([k \in {"findings"} |-> values[1]]))
      [] w = "stray" -> <<"[", "w">> \o Dumps(values[1])
      [] w = "prose" -> <<"w", "w">>
      [] w = "empty" -> << >>
      [] w = "blank" -> <<"ws">>

InitParse ==
    /\ \/ /\ wrap \in ListWraps
          /\ src \in SeqsUpTo(SampleValues, MaxFindings)
          /\ completion = [kind |-> "text", text |-> Written(wrap, src)]
       \/ /\ wrap \in ValueWraps
          /\ src \in { <<x>> : x \in SampleValues \cup {None} }
          /\ completion = [kind |-> "text", text |-> Written(wrap, src)]
       \/ /\ wrap \in TextWraps
          /\ src = << >>
          /\ completion = [kind |-> "text", text |-> Written(wrap, src)]
       \/ /\ wrap = "none"
          /\ src = << >>
          /\ completion \in { [kind |-> "raise", text |-> << >>],
                            [kind |-> "none", text |-> << >>] }
    /\ scanned = << >>
    /\ parsed = << >>
    /\ step = 0
    /\ extracted = None
    /\ evaluated = FALSE
    /\ legacy = << >>
    /\ ppc = "input"
    /\ IdleFilter
    /\ IdleChunk
    /\ IdleScan
    /\ IdleApi
    /\ IdleGit

CallGenerateScannedResult ==
    /\ ppc = "input"
    /\ scanned' = generate_scanned_result(completion)
    /\ IF completion.kind = "text"
       THEN /\ step' = DecodeStep(strip(completion.text))
            /\ extracted' = DecodeFindings(strip(completion.text))
       ELSE UNCHANGED <<step, extracted>>
    /\ ppc' = "scanned"
    /\ UNCHANGED <<src, wrap, completion, parsed, evaluated, legacy, filterVars, chunkVars,
                   scanVars, apiVars, gitVars>>

CallParseFindings ==
    /\ ppc = "scanned"
    /\ parsed' = parse_findings(List(scanned))
    /\ ppc' = "parsed"
    /\ UNCHANGED <<src, wrap, completion, scanned, step, extracted, evaluated, legacy,
                   filterVars, chunkVars, scanVars, apiVars, gitVars>>

\* Mutant: analyze_repo is given the text of the completion
CallAnalyzeRepoOnText ==
    /\ ppc = "scanned"
    /\ LET r == analyze_repo([t |-> "text", v |-> completion.text])
       IN  /\ evaluated' = r.evaluated
           /\ legacy' = r.findings
    /\ ppc' = "legacy"
    /\ UNCHANGED <<src, wrap, completion, scanned, parsed, step, extracted, filterVars,
                   chunkVars, scanVars, apiVars, gitVars>>

\* analyze_repo of the first variant of the command: the list returned by
\* generate_scanned_result goes through its parsing
CallAnalyzeRepo ==
    /\ ppc = "scanned"
    /\ LET r == analyze_repo(List(scanned))
       IN  /\ evaluated' = r.evaluated
           /\ legacy' = r.findings
    /\ ppc' = "legacy"
    /\ UNCHANGED <<src, wrap, completion, scanned, parsed, step, extracted, filterVars,
                   chunkVars, scanVars, apiVars, gitVars>>

NextParse == CallGenerateScannedResult \/ CallParseFindings \/ CallAnalyzeRepo

SpecParse == InitParse /\ [][NextParse]_vars

----------------------------------------------------------------------------
(* The command `scan run` on a repository *)

\* The repository: a.py, b.png, lib/ (d.PY of exactly max_file_size bytes,
\* big.c one byte larger) and c.js
Tree ==
    [n \in 1..6 |->
        CASE n = 1 -> [path |-> <<"a", ".", "p", "y">>, type |-> "file",
                       size |-> 500, entries |-> << >>, parent |-> 0]
          [] n = 2 -> [path |-> <<"b", ".", "p", "n", "g">>, type |-> "file",
                       size |-> 500, entries |-> << >>, parent |-> 0]
          [] n = 3 -> [path |-> <<"l", "i", "b">>, type |-> "dir",
                       size |-> 0, entries |-> <<5, 6>>, parent |-> 0]
          [] n = 4 -> [path |-> <<"c", ".", "j", "s">>, type |-> "file",
                       size |-> 500, entries |-> << >>, parent |-> 0]
          [] n = 5 -> [path |-> <<"l", "i", "b", "/", "d", ".", "P", "Y">>, type |-> "file",
                       size |-> max_file_size, entries |-> << >>, parent |-> 3]
          [] n = 6 -> [path |-> <<"l", "i", "b", "/", "b", "i", "g", ".", "c">>, type |-> "file",
                       size |-> max_file_size + 1, entries |-> << >>, parent |-> 3]]

RootEntries == <<1, 2, 3, 4>>

Analyzable(n) == Tree[n].type = "file" /\ is_analyzable_file(Tree[n].path, Tree[n].size)

\* str.lower() on the words that occur as severity, category or option
LowerWord(w) ==
    CASE w \in {"Critical", "CRITICAL"} -> "critical"
      [] w \in {"High", "HIGH"} -> "high"
      [] w \in {"Medium", "MEDIUM"} -> "medium"
      [] w \in {"Low", "LOW"} -> "low"
      [] w \in {"Security", "SECURITY"} -> "security"
      [] w \in {"Quality", "QUALITY"} -> "quality"
      [] w \in {"Error", "ERROR"} -> "error"
      [] w \in {"Info", "INFO"} -> "info"
      [] OTHER -> w

\* Completions of the analyzer in a scan: the request raises; one finding
\* without location and recommendation; two complete findings inside prose;
\* prose; an empty findings array; a finding whose severity is null
LowFinding == Finding("Low", "Quality", "y", "src/b.js", "Rename it")

CriticalFinding == Finding("Critical", "Security", "z", "src/c.js", "Rotate the key")

NullSeverityFinding ==
    Dict([severity |-> None, category |-> Str("Security"), description |-> Str("n")])

Text(text) == [kind |-> "text", text |-> text]

ScanCompletions ==
    { [kind |-> "raise", text |-> << >>],
      Text(Written("object", <<ObjectWith(RequiredKeys)>>)),
      Text(Written("prose_array", <<LowFinding, CriticalFinding>>)),
      Text(Written("prose", << >>)),
      Text(Written("object", << >>)),
      Text(Written("object", <<NullSeverityFinding>>)) }

InitScan ==
    /\ github_token \in BOOLEAN
    /\ max_files_per_batch \in (0 - 1)..MaxScanBatch
    /\ category \in {"", "security"}
    /\ severity \in {"", "HIGH"}
    /\ pc = "start"
    /\ contents = << >>
    /\ all_files = << >>
    /\ batches = << >>
    /\ batch_index = 0
    /\ in_flight = 0
    /\ all_findings = << >>
    /\ aggregate = << >>
    /\ findings = << >>
    /\ displayed = << >>
    /\ summary = << >>
    /\ console = << >>
    /\ exit_code = -1
    /\ node_errors = {}
    /\ visited = {}
    /\ submitted = << >>
    /\ analyzed = << >>
    /\ outcomes = << >>
    /\ returned = << >>
    /\ IdleFilter
    /\ IdleChunk
    /\ IdleParse
    /\ IdleApi
    /\ IdleGit

\* run: `except Exception`: the error is printed and the process exits with 1
ScanFailed ==
    /\ console' = Append(console, "ERROR: Scan failed")
    /\ exit_code' = 1
    /\ pc' = "done"

\* analyze_repo: `except Exception`: the error is printed and one finding
\* that describes it is returned to run
AnalysisFailed(message) ==
    /\ console' = Append(console, "ERROR: " \o message)
    /\ aggregate' = <<AnalysisFailedFinding(message)>>
    /\ findings' = <<AnalysisFailedFinding(message)>>
    /\ pc' = "filter"

\* get_repo_files: the exception raised by its outer except
GatherFailed == "Analysis failed: Failed to gather repository files"

\* chunk_files: the ValueError of range() with step 0
RangeStepZero == "Analysis failed: range() arg 3 must not be zero"

\* run: RepoScanner(...) and the call of analyze_repo
Construct ==
    /\ pc = "start"
    /\ IF github_token
       THEN /\ pc' = "listing"
            /\ UNCHANGED <<console, exit_code>>
       ELSE ScanFailed
    /\ UNCHANGED <<configVars, walkVars, batchVars, aggregate, findings, displayed,
                   summary, harnessVars>>

\* get_repo_files: get_repo and get_contents("") answer
GetRepo ==
    /\ pc = "listing"
    /\ contents' = RootEntries
    /\ pc' = "walking"
    /\ UNCHANGED <<configVars, all_files, node_errors, visited, batchVars, runVars,
                   harnessVars>>

\* get_repo_files: the repository cannot be reached or authenticated; the
\* exception is wrapped, raised again and caught by analyze_repo
GetRepoFails ==
    /\ pc = "listing"
    /\ AnalysisFailed(GatherFailed)
    /\ UNCHANGED <<configVars, walkVars, batchVars, displayed, summary, exit_code,
                   harnessVars>>

\* Mutant: an expanded directory is put back at the end of the queue
ExpandDirRequeue ==
    /\ pc = "walking" /\ contents # << >>
    /\ Tree[Head(contents)].type = "dir"
    /\ contents' = Tail(contents) \o Tree[Head(contents)].entries \o <<Head(contents)>>
    /\ visited' = visited \cup {Head(contents)}
    /\ UNCHANGED <<configVars, pc, all_files, node_errors, batchVars, runVars, harnessVars>>

\* get_repo_files, one iteration: a directory is expanded
ExpandDir ==
    /\ pc = "walking" /\ contents # << >>
    /\ Tree[Head(contents)].type = "dir"
    /\ contents' = Tail(contents) \o Tree[Head(contents)].entries
    /\ visited' = visited \cup {Head(contents)}
    /\ UNCHANGED <<configVars, pc, all_files, node_errors, batchVars, runVars, harnessVars>>

\* get_repo_files, one iteration: get_contents of a directory raises
\* GithubException
SkipDir ==
    /\ pc = "walking" /\ contents # << >>
    /\ Tree[Head(contents)].type = "dir"
    /\ contents' = Tail(contents)
    /\ visited' = visited \cup {Head(contents)}
    /\ node_errors' = node_errors \cup {Head(contents)}
    /\ console' = Append(console, "WARNING: Skipping directory")
    /\ UNCHANGED <<configVars, pc, all_files, batchVars, aggregate, findings, displayed,
                   summary, exit_code, harnessVars>>

\* get_repo_files, one iteration: a file that is not analyzable
SkipUnanalyzable ==
    /\ pc = "walking" /\ contents # << >>
    /\ Tree[Head(contents)].type = "file"
    /\ ~ is_analyzable_file(Tree[Head(contents)].path, Tree[Head(contents)].size)
    /\ contents' = Tail(contents)
    /\ visited' = visited \cup {Head(contents)}
    /\ UNCHANGED <<configVars, pc, all_files, node_errors, batchVars, runVars, harnessVars>>

\* get_repo_files, one iteration: an analyzable file is decoded and added
AddFile ==
    /\ pc = "walking" /\ contents # << >>
    /\ Tree[Head(contents)].type = "file"
    /\ is_analyzable_file(Tree[Head(contents)].path, Tree[Head(contents)].size)
    /\ contents' = Tail(contents)
    /\ visited' = visited \cup {Head(contents)}
    /\ all_files' = Append(all_files, Head(contents))
    /\ UNCHANGED <<configVars, pc, node_errors, batchVars, runVars, harnessVars>>

\* get_repo_files, one iteration: fetching or decoding an analyzable file
\* raises GithubException or UnicodeDecodeError
SkipFile ==
    /\ pc = "walking" /\ contents # << >>
    /\ Tree[Head(contents)].type = "file"
    /\ is_analyzable_file(Tree[Head(contents)].path, Tree[Head(contents)].size)
    /\ contents' = Tail(contents)
    /\ visited' = visited \cup {Head(contents)}
    /\ node_errors' = node_errors \cup {Head(contents)}
    /\ console' = Append(console, "WARNING: Skipping file")
    /\ UNCHANGED <<configVars, pc, all_files, batchVars, aggregate, findings, displayed,
                   summary, exit_code, harnessVars>>

\* get_repo_files, one iteration: expanding a directory, or fetching or
\* decoding an analyzable file, raises an exception of another class (a
\* connection error or timeout of the HTTP layer, binascii.Error); only the
\* outer except catches it, the walk ends and analyze_repo catches the
\* exception raised again
WalkFails ==
    /\ pc = "walking" /\ contents # << >>
    /\ \/ Tree[Head(contents)].type = "dir"
       \/ /\ Tree[Head(contents)].type = "file"
          /\ is_analyzable_file(Tree[Head(contents)].path, Tree[Head(contents)].size)
    /\ contents' = Tail(contents)
    /\ visited' = visited \cup {Head(contents)}
    /\ node_errors' = node_errors \cup {Head(contents)}
    /\ AnalysisFailed(GatherFailed)
    /\ UNCHANGED <<configVars, all_files, batchVars, displayed, summary, exit_code,
                   harnessVars>>

\* Mutant: get_repo_files returns while entries are still to be visited
FinishWalkEarly ==
    /\ pc = "walking"
    /\ IF all_files = << >>
       THEN /\ console' = console \o <<"SUCCESS: Found files",
                                      "WARNING: No analyzable files found">>
            /\ aggregate' = << >>
            /\ findings' = << >>
            /\ pc' = "filter"
       ELSE /\ console' = Append(console, "SUCCESS: Found files")
            /\ pc' = "batching"
            /\ UNCHANGED <<aggregate, findings>>
    /\ UNCHANGED <<configVars, walkVars, batchVars, displayed, summary, exit_code,
                   harnessVars>>

\* Mutant: a walk without files gives the finding of a scan without issues
FinishWalkSentinel ==
    /\ pc = "walking" /\ contents = << >>
    /\ IF all_files = << >>
       THEN /\ console' = console \o <<"SUCCESS: Found files",
                                      "WARNING: No analyzable files found">>
            /\ aggregate' = <<NoIssuesFinding>>
            /\ findings' = <<NoIssuesFinding>>
            /\ pc' = "filter"
       ELSE /\ console' = Append(console, "SUCCESS: Found files")
            /\ pc' = "batching"
            /\ UNCHANGED <<aggregate, findings>>
    /\ UNCHANGED <<configVars, walkVars, batchVars, displayed, summary, exit_code,
                   harnessVars>>

\* get_repo_files returns; analyze_repo returns [] when no file was gathered
FinishWalk ==
    /\ pc = "walking" /\ contents = << >>
    /\ IF all_files = << >>
       THEN /\ console' = console \o <<"SUCCESS: Found files",
                                      "WARNING: No analyzable files found">>
            /\ aggregate' = << >>
            /\ findings' = << >>
            /\ pc' = "filter"
       ELSE /\ console' = Append(console, "SUCCESS: Found files")
            /\ pc' = "batching"
            /\ UNCHANGED <<aggregate, findings>>
    /\ UNCHANGED <<configVars, walkVars, batchVars, displayed, summary, exit_code,
                   harnessVars>>

\* analyze_repo: batches = self.chunk_files(all_files); all_findings = []
ChunkFiles ==
    /\ pc = "batching"
    /\ LET r == chunk_files(all_files, max_files_per_batch)
       IN  IF r.raised
           THEN /\ AnalysisFailed(RangeStepZero)
                /\ UNCHANGED <<batches, batch_index, all_findings>>
           ELSE /\ batches' = r.batches
                /\ batch_index' = 1
                /\ all_findings' = << >>
                /\ pc' = "analyzing"
                /\ UNCHANGED <<aggregate, findings, console>>
    /\ UNCHANGED <<configVars, walkVars, in_flight, submitted, analyzed, outcomes, returned,
                   displayed, summary, exit_code, harnessVars>>

\* Mutant: a batch whose analysis failed ends the loop
ClientFailsAborts ==
    /\ pc = "analyzing" /\ in_flight = 0 /\ batch_index <= Len(batches)
    /\ analyzed' = Append(analyzed, batch_index)
    /\ console' = Append(console, "WARNING: Batch analysis failed")
    /\ outcomes' = Append(outcomes, "client")
    /\ returned' = Append(returned, << >>)
    /\ all_findings' = all_findings \o << >>
    /\ batch_index' = Len(batches) + 1
    /\ UNCHANGED <<configVars, pc, walkVars, batches, in_flight, submitted, aggregate,
                   findings, displayed, summary, exit_code, harnessVars>>

\* analyze_batch: GroqService() raises; the except of analyze_batch returns []
ClientFails ==
    /\ pc = "analyzing" /\ in_flight = 0 /\ batch_index <= Len(batches)
    /\ analyzed' = Append(analyzed, batch_index)
    /\ console' = Append(console, "WARNING: Batch analysis failed")
    /\ outcomes' = Append(outcomes, "client")
    /\ returned' = Append(returned, << >>)
    /\ all_findings' = all_findings \o << >>
    /\ batch_index' = batch_index + 1
    /\ UNCHANGED <<configVars, pc, walkVars, batches, in_flight, submitted, aggregate,
                   findings, displayed, summary, exit_code, harnessVars>>

\* Mutant: the request of a batch is issued while another is not yet answered
SubmitBatchConcurrent ==
    /\ pc = "analyzing" /\ in_flight < 2 /\ batch_index <= Len(batches)
    /\ in_flight' = in_flight + 1
    /\ analyzed' = Append(analyzed, batch_index)
    /\ submitted' = Append(submitted, batch_index)
    /\ UNCHANGED <<configVars, pc, walkVars, batches, batch_index, all_findings, outcomes,
                   returned, runVars, harnessVars>>

\* analyze_batch is called and the completion request for the batch is issued
SubmitBatch ==
    /\ pc = "analyzing" /\ in_flight = 0 /\ batch_index <= Len(batches)
    /\ in_flight' = in_flight + 1
    /\ analyzed' = Append(analyzed, batch_index)
    /\ submitted' = Append(submitted, batch_index)
    /\ UNCHANGED <<configVars, pc, walkVars, batches, batch_index, all_findings, outcomes,
                   returned, runVars, harnessVars>>

\* Mutant: the findings of a batch are put before the aggregate
ExtendPrepending(aggregate_so_far, batch_findings) == batch_findings \o aggregate_so_far

\* Mutant: the findings of a batch replace the aggregate
ExtendReplacing(aggregate_so_far, batch_findings) == batch_findings

\* analyze_repo: all_findings.extend(batch_findings)
Extend(aggregate_so_far, batch_findings) == aggregate_so_far \o batch_findings

\* analyze_batch: the request is answered or raises; generate_scanned_result
\* and parse_findings make the findings of the batch, analyze_repo appends
\* them
BatchReturns ==
    /\ pc = "analyzing" /\ in_flight = 1
    /\ \E c \in ScanCompletions :
          LET batch_findings == parse_findings(List(generate_scanned_result(c)))
          IN  /\ outcomes' = Append(outcomes, c.kind)
              /\ returned' = Append(returned, batch_findings)
              /\ all_findings' = Extend(all_findings, batch_findings)
    /\ in_flight' = 0
    /\ batch_index' = batch_index + 1
    /\ UNCHANGED <<configVars, pc, walkVars, batches, submitted, analyzed, runVars,
                   harnessVars>>

\* Mutant: after the last batch the repository is reached again
ReturnFindingsRescan ==
    /\ pc = "analyzing" /\ in_flight = 0 /\ batch_index > Len(batches)
    /\ aggregate' = all_findings
    /\ findings' = all_findings
    /\ pc' = "listing"
    /\ UNCHANGED <<configVars, walkVars, batchVars, displayed, summary, console, exit_code,
                   harnessVars>>

\* analyze_repo: return all_findings
ReturnFindings ==
    /\ pc = "analyzing" /\ in_flight = 0 /\ batch_index > Len(batches)
    /\ aggregate' = all_findings
    /\ findings' = all_findings
    /\ pc' = "filter"
    /\ UNCHANGED <<configVars, walkVars, batchVars, displayed, summary, console, exit_code,
                   harnessVars>>

\* Mutant: the comparison is case-sensitive
MatchesCaseSensitive(f, key, option) == f.v[key].v = option

\* f[key].lower() == option.lower()
Matches(f, key, option) == LowerWord(f.v[key].v) = LowerWord(option)

\* run: the filters by --category and --severity; .lower() of a value that
\* is not a str raises AttributeError
FilterFindings ==
    /\ pc = "filter"
    /\ LET by_category ==
               IF category # ""
               THEN SelectSeq(findings, LAMBDA f : Matches(f, "category", category))
               ELSE findings
           by_severity ==
               IF severity # ""
               THEN SelectSeq(by_category, LAMBDA f : Matches(f, "severity", severity))
               ELSE by_category
           raises ==
               \/ category # "" /\ \E k \in 1..Len(findings) :
                                      findings[k].v["category"].t # "str"
               \/ severity # "" /\ \E k \in 1..Len(by_category) :
                                      by_category[k].v["severity"].t # "str"
       IN  IF raises
           THEN /\ ScanFailed
                /\ UNCHANGED findings
           ELSE /\ findings' = by_severity
                /\ pc' = "display"
                /\ UNCHANGED <<console, exit_code>>
    /\ UNCHANGED <<configVars, walkVars, batchVars, aggregate, displayed, summary,
                   harnessVars>>

\* Mutant: the severity is compared as it is written
CountSeverityExact(fs, level) ==
    Cardinality({ k \in 1..Len(fs) : fs[k].v["severity"].v = level })

\* display_results: sum(1 for f in findings if f["severity"].lower() == level)
CountSeverity(fs, level) ==
    Cardinality({ k \in 1..Len(fs) : LowerWord(fs[k].v["severity"].v) = level })

\* run: display_results(findings, output) for a non-empty list, the message
\* of a scan without issues otherwise
Display ==
    /\ pc = "display"
    /\ IF findings = << >>
       THEN /\ console' = Append(console, "SUCCESS: Scan completed! No issues found.")
            /\ exit_code' = 0
            /\ pc' = "done"
            /\ UNCHANGED <<displayed, summary>>
       ELSE IF \E k \in 1..Len(findings) : findings[k].v["severity"].t # "str"
       THEN /\ displayed' = findings
            /\ console' = console \o <<"results", "ERROR: Scan failed">>
            /\ exit_code' = 1
            /\ pc' = "done"
            /\ UNCHANGED summary
       ELSE /\ displayed' = findings
            /\ summary' = << [total |-> Len(findings),
                              critical |-> CountSeverity(findings, "critical"),
                              high |-> CountSeverity(findings, "high"),
                              medium |-> CountSeverity(findings, "medium"),
                              low |-> CountSeverity(findings, "low")] >>
            /\ console' = console \o <<"results", "SUCCESS: Scan completed!">>
            /\ exit_code' = 0
            /\ pc' = "done"
    /\ UNCHANGED <<configVars, walkVars, batchVars, aggregate, findings, harnessVars>>

Next ==
    \/ Construct
    \/ GetRepo
    \/ GetRepoFails
    \/ ExpandDir
    \/ SkipDir
    \/ SkipUnanalyzable
    \/ AddFile
    \/ SkipFile
    \/ WalkFails
    \/ FinishWalk
    \/ ChunkFiles
    \/ ClientFails
    \/ SubmitBatch
    \/ BatchReturns
    \/ ReturnFindings
    \/ FilterFindings
    \/ Display

Init == InitScan

Spec == Init /\ [][Next]_vars

----------------------------------------------------------------------------
(* POST /api/gpa (gpa/api.py): a command is run in a working directory      *)
(* under a timeout. A text is a sequence of words, the parts of the text    *)
(* between its blanks and line ends, and a word is a sequence of            *)
(* characters.                                                              *)

\* `needle in text` for a needle without blank
In(needle, text) ==
    \E k \in 1..Len(text) :
        \E i \in 1..(Len(text[k]) - Len(needle) + 1) :
            SubSeq(text[k], i, i + Len(needle) - 1) = needle

\* post: the needle of `"timeout" in result["error"]`
TimeoutWord == <<"t", "i", "m", "e", "o", "u", "t">>

\* run_command_with_timeout: the error of the except of TimeoutExpired
TimedOutError(seconds, lines) ==
    << <<"C", "o", "m", "m", "a", "n", "d">>,
       <<"t", "i", "m", "e", "d">>,
       <<"o", "u", "t">>,
       <<"a", "f", "t", "e", "r">>,
       <<ToString(seconds)>>,
       <<"s", "e", "c", "o", "n", "d", "s", ".">>,
       <<"P", "a", "r", "t", "i", "a", "l">>,
       <<"o", "u", "t", "p", "u", "t", ":">> >> \o lines

\* run_command_with_timeout: the error for a missing working directory
DoesNotExistError(name) ==
    << <<"W", "o", "r", "k", "i", "n", "g">>,
       <<"d", "i", "r", "e", "c", "t", "o", "r", "y">>,
       <<"d", "o", "e", "s">>,
       <<"n", "o", "t">>,
       <<"e", "x", "i", "s", "t", ":">>,
       name >>

\* run_command_with_timeout: the error for a directory without .git
NotGitError(name) ==
    << <<"N", "o", "t">>,
       <<"a">>,
       <<"g", "i", "t">>,
       <<"r", "e", "p", "o", "s", "i", "t", "o", "r", "y", ":">>,
       name >>

\* str(e) of the FileNotFoundError of Popen when gpa is not installed
PopenError ==
    << <<"[", "E", "r", "r", "n", "o">>,
       <<"2", "]">>,
       <<"N", "o">>,
       <<"s", "u", "c", "h">>,
       <<"f", "i", "l", "e">>,
       <<"o", "r">>,
       <<"d", "i", "r", "e", "c", "t", "o", "r", "y", ":">>,
       <<"'", "g", "p", "a", "'">> >>

\* str(e) of the AttributeError of body.get when the request has no body
NoBodyError ==
    << <<"'", "N", "o", "n", "e", "T", "y", "p", "e", "'">>,
       <<"o", "b", "j", "e", "c", "t">>,
       <<"h", "a", "s">>,
       <<"n", "o">>,
       <<"a", "t", "t", "r", "i", "b", "u", "t", "e">>,
       <<"'", "g", "e", "t", "'">> >>

EmptyCommandError == << <<"E", "m", "p", "t", "y">>,
                     <<"c", "o", "m", "m", "a", "n", "d">> >>

\* Names of working directories
DirNames == { <<"/", "s", "r", "v", "/", "a", "p", "p">>,
              <<"/", "s", "r", "v", "/", "t", "i", "m", "e", "o", "u", "t", "s">> }

\* Lines the command writes
StdoutLines == { <<"S", "c", "a", "n", "n", "i", "n", "g">> }

StderrLines == { <<"f", "a", "i", "l", "e", "d">>,
                 <<"r", "e", "a", "d">> \o TimeoutWord }

InitApi ==
    /\ body_given \in BOOLEAN
    /\ IF body_given
       THEN /\ command \in {"", "scan run"}
            /\ timeout \in 1..MaxTimeout
            /\ working_dir \in [name : DirNames, at : {"missing", "plain", "repo"}]
       ELSE /\ command = ""
            /\ timeout = 1
            /\ working_dir = [name |-> << >>, at |-> "missing"]
    /\ process = "none"
    /\ elapsed = 0
    /\ output_lines = << >>
    /\ error_lines = << >>
    /\ timed_out = FALSE
    /\ cmd_result = NoResult
    /\ http = NoResponse
    /\ apc = "received"
    /\ IdleFilter
    /\ IdleChunk
    /\ IdleParse
    /\ IdleScan
    /\ IdleGit

\* post: the body is read and the command checked; an exception gives 500,
\* an empty command 400
Post ==
    /\ apc = "received"
    /\ IF ~ body_given
       THEN /\ http' = [code |-> 500, body |-> [error |-> NoBodyError]]
            /\ apc' = "responded"
       ELSE IF command = ""
       THEN /\ http' = [code |-> 400, body |-> [error |-> EmptyCommandError]]
            /\ apc' = "responded"
       ELSE /\ apc' = "called"
            /\ UNCHANGED http
    /\ UNCHANGED <<body_given, command, timeout, working_dir, process, elapsed, output_lines,
                   error_lines, timed_out, cmd_result, filterVars, chunkVars, parseVars,
                   scanVars, gitVars>>

\* run_command_with_timeout: the working directory is missing or is not a
\* git repository
CheckWorkingDir ==
    /\ apc = "called"
    /\ working_dir.at # "repo"
    /\ cmd_result' = [output |-> << >>,
                      error |-> IF working_dir.at = "missing"
                                THEN DoesNotExistError(working_dir.name)
                                ELSE NotGitError(working_dir.name),
                      status |-> 0 - 1]
    /\ apc' = "returned"
    /\ UNCHANGED <<body_given, command, timeout, working_dir, process, elapsed, output_lines,
                   error_lines, timed_out, http, filterVars, chunkVars, parseVars,
                   scanVars, gitVars>>

\* run_command_with_timeout: the process is created in its own session and
\* the two reader threads are started
Popen ==
    /\ apc = "called"
    /\ working_dir.at = "repo"
    /\ process' = "running"
    /\ apc' = "waiting"
    /\ UNCHANGED <<body_given, command, timeout, working_dir, elapsed, output_lines,
                   error_lines, timed_out, cmd_result, http, filterVars, chunkVars,
                   parseVars, scanVars, gitVars>>

\* run_command_with_timeout: Popen raises; the outer except returns
PopenFails ==
    /\ apc = "called"
    /\ working_dir.at = "repo"
    /\ cmd_result' = [output |-> << >>, error |-> PopenError, status |-> 0 - 1]
    /\ apc' = "returned"
    /\ UNCHANGED <<body_given, command, timeout, working_dir, process, elapsed, output_lines,
                   error_lines, timed_out, http, filterVars, chunkVars, parseVars,
                   scanVars, gitVars>>

\* read_output: a reader thread appends a line of the running process
ReadOutput ==
    /\ apc = "waiting"
    /\ process = "running"
    /\ \/ /\ Len(output_lines) < MaxLines
          /\ \E line \in StdoutLines : output_lines' = Append(output_lines, line)
          /\ UNCHANGED error_lines
       \/ /\ Len(error_lines) < MaxLines
          /\ \E line \in StderrLines : error_lines' = Append(error_lines, line)
          /\ UNCHANGED output_lines
    /\ UNCHANGED <<body_given, command, timeout, working_dir, process, elapsed, timed_out,
                   cmd_result, http, apc, filterVars, chunkVars, parseVars, scanVars, gitVars>>

\* process.wait(timeout=timeout): a second passes
Tick ==
    /\ apc = "waiting"
    /\ process = "running"
    /\ elapsed < timeout
    /\ elapsed' = elapsed + 1
    /\ UNCHANGED <<body_given, command, timeout, working_dir, process, output_lines,
                   error_lines, timed_out, cmd_result, http, apc, filterVars, chunkVars,
                   parseVars, scanVars, gitVars>>

\* process.wait returns: the process has exited in time
WaitReturns ==
    /\ apc = "waiting"
    /\ process = "running"
    /\ elapsed < timeout
    /\ process' = "exited"
    /\ \E returncode \in {0, 1} :
          cmd_result' = [output |-> output_lines, error |-> error_lines,
                         status |-> returncode]
    /\ apc' = "returned"
    /\ UNCHANGED <<body_given, command, timeout, working_dir, elapsed, output_lines,
                   error_lines, timed_out, http, filterVars, chunkVars, parseVars,
                   scanVars, gitVars>>

\* process.wait raises TimeoutExpired: SIGTERM to the process group, SIGKILL
\* when the process has not ended five seconds later
WaitExpires ==
    /\ apc = "waiting"
    /\ process = "running"
    /\ elapsed = timeout
    /\ timed_out' = TRUE
    /\ process' \in {"terminated", "killed"}
    /\ cmd_result' = [output |-> output_lines,
                      error |-> TimedOutError(timeout, error_lines),
                      status |-> 0 - 1]
    /\ apc' = "returned"
    /\ UNCHANGED <<body_given, command, timeout, working_dir, elapsed, output_lines,
                   error_lines, http, filterVars, chunkVars, parseVars, scanVars, gitVars>>

\* post: the result is turned into the response
Respond ==
    /\ apc = "returned"
    /\ IF cmd_result.status = 0 - 1
       THEN http' = [code |-> IF In(TimeoutWord, cmd_result.error) THEN 504 ELSE 500,
                     body |-> [error |-> cmd_result.error,
                               partial_output |-> cmd_result.output]]
       ELSE http' = [code |-> 200,
                     body |-> [output |-> cmd_result.output, error |-> cmd_result.error,
                               status |-> cmd_result.status]]
    /\ apc' = "responded"
    /\ UNCHANGED <<body_given, command, timeout, working_dir, process, elapsed, output_lines,
                   error_lines, timed_out, cmd_result, filterVars, chunkVars, parseVars,
                   scanVars, gitVars>>

NextApi ==
    \/ Post
    \/ CheckWorkingDir
    \/ Popen
    \/ PopenFails
    \/ ReadOutput
    \/ Tick
    \/ WaitReturns
    \/ WaitExpires
    \/ Respond

SpecApi == InitApi /\ [][NextApi]_vars

----------------------------------------------------------------------------
(* GitService: calls of its methods on one instance *)

\* return is_valid, message
Tuple(is_valid, message) == [kind |-> "tuple", ok |-> is_valid, text |-> message, n |-> 0]

\* return of a str
DiffText(diff) == [kind |-> "str", ok |-> TRUE, text |-> diff, n |-> 0]

\* return of a list of that many commit messages
Messages(number) == [kind |-> "list", ok |-> TRUE, text |-> "", n |-> number]

\* return of a method without a return statement
ReturnsNone == [kind |-> "None", ok |-> TRUE, text |-> "", n |-> 0]

\* an exception leaves the method
Raises(exception) == [kind |-> "raise", ok |-> FALSE, text |-> exception, n |-> 0]

NotInitialized == "ValueError: Repository not initialized"

\* The call is put on record
Call(method, success) == Append(git_calls, [method |-> method, ok |-> success])

\* __init__: self.repo = None
InitGit ==
    /\ repo = 0
    /\ git_ops = << >>
    /\ git_calls = << >>
    /\ git_returned = NoReturn
    /\ gpc = "ready"
    /\ IdleFilter
    /\ IdleChunk
    /\ IdleParse
    /\ IdleScan
    /\ IdleApi

\* Mutant: a validation that fails forgets the repository
ValidateRepoClearing ==
    /\ gpc = "ready" /\ Len(git_calls) < MaxCalls
    /\ \E at_path \in {"repo", "plain", "missing", "unreadable"} :
          /\ IF at_path = "repo"
             THEN /\ repo' = Len(git_calls) + 1
                  /\ git_returned' = Tuple(TRUE, "Valid git repository")
             ELSE /\ repo' = 0
                  /\ git_returned' =
                        Tuple(FALSE, CASE at_path = "plain" -> "Not a git repository"
                                       [] at_path = "missing" -> "Path does not exist"
                                       [] OTHER -> "Error validating repository")
          /\ git_calls' = Call("validate_repo", at_path = "repo")
    /\ UNCHANGED <<git_ops, gpc, filterVars, chunkVars, parseVars, apiVars, scanVars>>

\* validate_repo: git.Repo(self.repo_path) gives the Repo object or raises
\* InvalidGitRepositoryError, NoSuchPathError or another exception
ValidateRepo ==
    /\ gpc = "ready" /\ Len(git_calls) < MaxCalls
    /\ \E at_path \in {"repo", "plain", "missing", "unreadable"} :
          /\ IF at_path = "repo"
             THEN /\ repo' = Len(git_calls) + 1
                  /\ git_returned' = Tuple(TRUE, "Valid git repository")
             ELSE /\ repo' = repo
                  /\ git_returned' =
                        Tuple(FALSE, CASE at_path = "plain" -> "Not a git repository"
                                       [] at_path = "missing" -> "Path does not exist"
                                       [] OTHER -> "Error validating repository")
          /\ git_calls' = Call("validate_repo", at_path = "repo")
    /\ UNCHANGED <<git_ops, gpc, filterVars, chunkVars, parseVars, apiVars, scanVars>>

\* init_repo: git.Repo.init(self.repo_path) gives the Repo object, or raises
\* before git is run or when git init fails
InitRepo ==
    /\ gpc = "ready" /\ Len(git_calls) < MaxCalls
    /\ \E failure \in {"none", "path", "git"} :
          /\ IF failure = "none"
             THEN /\ repo' = Len(git_calls) + 1
                  /\ git_returned' = Tuple(TRUE, "Initialized new git repository")
             ELSE /\ repo' = repo
                  /\ git_returned' = Tuple(FALSE, "Error initializing repository")
          /\ git_ops' = IF failure = "path" THEN git_ops ELSE Append(git_ops, "init")
          /\ git_calls' = Call("init_repo", failure = "none")
    /\ UNCHANGED <<gpc, filterVars, chunkVars, parseVars, apiVars, scanVars>>

\* get_staged_diff: ValueError without a repository, else the text of
\* git diff --staged, or the exception of the git command
GetStagedDiff ==
    /\ gpc = "ready" /\ Len(git_calls) < MaxCalls
    /\ \E staged \in BOOLEAN, git_fails \in BOOLEAN :
          IF repo = 0
          THEN /\ git_returned' = Raises(NotInitialized)
               /\ git_calls' = Call("get_staged_diff", FALSE)
               /\ UNCHANGED git_ops
          ELSE /\ git_ops' = Append(git_ops, "diff --staged")
               /\ git_returned' = IF git_fails THEN Raises("GitCommandError")
                                  ELSE DiffText(IF staged THEN "diff" ELSE "")
               /\ git_calls' = Call("get_staged_diff", ~ git_fails)
    /\ UNCHANGED <<repo, gpc, filterVars, chunkVars, parseVars, apiVars, scanVars>>

\* get_recent_commits: ValueError without a repository, else the messages
\* of at most count commits, or the exception of iter_commits
GetRecentCommits ==
    /\ gpc = "ready" /\ Len(git_calls) < MaxCalls
    /\ \E max_count \in {1, 5}, in_log \in 0..2 :
          IF repo = 0
          THEN /\ git_returned' = Raises(NotInitialized)
               /\ git_calls' = Call("get_recent_commits", FALSE)
               /\ UNCHANGED git_ops
          ELSE /\ git_ops' = Append(git_ops, "log")
               /\ git_returned' = IF in_log = 0 THEN Raises("ValueError: Reference does not exist")
                                  ELSE Messages(Min(max_count, in_log))
               /\ git_calls' = Call("get_recent_commits", in_log # 0)
    /\ UNCHANGED <<repo, gpc, filterVars, chunkVars, parseVars, apiVars, scanVars>>

\* create_commit: ValueError without a repository, else
\* self.repo.index.commit(message)
CreateCommit ==
    /\ gpc = "ready" /\ Len(git_calls) < MaxCalls
    /\ \E git_fails \in BOOLEAN :
          IF repo = 0
          THEN /\ git_returned' = Raises(NotInitialized)
               /\ git_calls' = Call("create_commit", FALSE)
               /\ UNCHANGED git_ops
          ELSE /\ git_ops' = Append(git_ops, "commit")
               /\ git_returned' = IF git_fails THEN Raises("GitCommandError") ELSE ReturnsNone
               /\ git_calls' = Call("create_commit", ~ git_fails)
    /\ UNCHANGED <<repo, gpc, filterVars, chunkVars, parseVars, apiVars, scanVars>>

NextGit ==
    \/ ValidateRepo
    \/ InitRepo
    \/ GetStagedDiff
    \/ GetRecentCommits
    \/ CreateCommit

SpecGit == InitGit /\ [][NextGit]_vars

----------------------------------------------------------------------------
(* C1 *)

\* The path ends, case-insensitively, in the allow-list entry e, and e is
\* the extension of its last component: the component has a non-dot
\* character before e
EndsWithExt(path, e) ==
    LET k == Len(path) - Len(e) + 1
    IN  /\ k >= 1
        /\ Lower(SubSeq(path, k, Len(path))) = e
        /\ \E j \in 1..(k - 1) :
              /\ path[j] # "."
              /\ \A m \in j..(k - 1) : path[m] # "/"

\* C1: is_analyzable_file(path, size) is true exactly when size is at most
\* max_file_size and the path's extension, compared case-insensitively, is in
\* the allow-list; a path without an extension is rejected and a file of
\* exactly max_file_size bytes with an allowed extension is accepted.
C1_FilterExact ==
    fpc = "returned" =>
        (analyzable <=> (/\ file_size <= max_file_size
                         /\ \E e \in file_extensions : EndsWithExt(file_path, e)))

\* A file of exactly max_file_size bytes with an upper-case extension passed
C1_Witness ==
    /\ fpc = "returned"
    /\ file_size = max_file_size
    /\ file_path = <<"a", ".", "P", "y">>
    /\ analyzable

----------------------------------------------------------------------------
(* C2, C3 *)

RECURSIVE Concat(_)
Concat(seqs) == IF seqs = << >> THEN << >> ELSE Head(seqs) \o Concat(Tail(seqs))

\* C2: for a batch size b > 0 the batches of chunk_files, concatenated in
\* order, are the input list: count and order are preserved and no file is
\* in two batches.
C2_ChunkConservation ==
    (cpc = "returned" /\ batch_size > 0) =>
        /\ ~ chunk_raised
        /\ Concat(chunks) = files
        /\ \A i, j \in 1..Len(chunks) :
              i # j => \A x \in 1..Len(chunks[i]) : \A y \in 1..Len(chunks[j]) :
                          chunks[i][x] # chunks[j][y]

\* 12 files in batches of 5 were put back together
C2_Witness ==
    /\ cpc = "returned"
    /\ batch_size = 5
    /\ Len(files) = 12
    /\ Len(chunks) = 3
    /\ Concat(chunks) = files

\* C3: for n >= 1 files and b > 0, chunk_files returns ceil(n/b) batches,
\* all of length b except the last, whose length is in 1..b.
C3_ChunkSizes ==
    (cpc = "returned" /\ batch_size > 0 /\ Len(files) >= 1) =>
        /\ Len(chunks) * batch_size >= Len(files)
        /\ (Len(chunks) - 1) * batch_size < Len(files)
        /\ \A k \in 1..(Len(chunks) - 1) : Len(chunks[k]) = batch_size
        /\ Len(chunks[Len(chunks)]) \in 1..batch_size

\* 12 files in batches of 5 gave the sizes 5, 5, 2
C3_Witness ==
    /\ cpc = "returned"
    /\ batch_size = 5
    /\ Len(files) = 12
    /\ [k \in 1..Len(chunks) |-> Len(chunks[k])] = <<5, 5, 2>>

----------------------------------------------------------------------------
(* C5, C10 *)

IsCompleteFinding(finding) ==
    /\ finding.t = "dict"
    /\ FindingKeys \subseteq DOMAIN finding.v

\* C5: for every analyzer output the normalization (generate_scanned_result,
\* then parse_findings) returns a non-empty list of findings that have all
\* five fields.
C5_NormalizationTotal ==
    /\ ppc \in {"scanned", "parsed"} =>
          /\ scanned # << >>
          /\ \A k \in 1..Len(scanned) : IsCompleteFinding(scanned[k])
    /\ ppc = "parsed" =>
          /\ parsed # << >>
          /\ \A k \in 1..Len(parsed) : IsCompleteFinding(parsed[k])

\* An empty findings array was normalized to a non-empty list
C5_Witness ==
    /\ ppc = "parsed"
    /\ wrap = "object"
    /\ src = << >>
    /\ Len(parsed) = 1

IsDict(val) == val.t = "dict"

\* The text decodes, as a whole or in its bracketed part, to the list src
Decodable == wrap \in {"object", "array", "prose_object", "prose_array", "padded"}

\* C10: a finding object written without location and/or recommendation comes
\* out with its supplied fields unchanged, location "Unknown" and
\* recommendation "No recommendation provided".
C10_MissingFieldDefaults ==
    (ppc = "parsed" /\ (Decodable \/ (wrap = "bare" /\ IsDict(src[1])))) =>
        LET objects == SelectSeq(src, IsDict)
        IN  \A k \in 1..Len(objects) :
              /\ k <= Len(parsed)
              /\ \A key \in DOMAIN objects[k].v : parsed[k].v[key] = objects[k].v[key]
              /\ "location" \notin DOMAIN objects[k].v =>
                    parsed[k].v["location"] = Str("Unknown")
              /\ "recommendation" \notin DOMAIN objects[k].v =>
                    parsed[k].v["recommendation"] = Str("No recommendation provided")

\* The example of the specification: one finding with severity, category and
\* description only
C10_Witness ==
    /\ ppc = "parsed"
    /\ wrap = "object"
    /\ src = <<ObjectWith(RequiredKeys)>>
    /\ parsed = <<Finding("High", "Security", "x", "Unknown", "No recommendation provided")>>

----------------------------------------------------------------------------
(* C4, C6, C7, C8, C9 *)

BackInRun == pc \in {"filter", "display", "done"}

Printed(message) == \E k \in 1..Len(console) : console[k] = message

ErrorReported == \E message \in {"ERROR: Scan failed", "ERROR: " \o GatherFailed,
                                 "ERROR: " \o RangeStepZero} : Printed(message)

ReportedCompleted ==
    Printed("SUCCESS: Scan completed!") \/ Printed("SUCCESS: Scan completed! No issues found.")

\* get_repo_files returned a non-empty list, so chunk_files was called
Chunked == Printed("SUCCESS: Found files") /\ all_files # << >> /\ pc # "batching"

\* C4: with a batch size of zero or below, a scan that gets to batching
\* reports an error, does not end as a completed scan and sends no batch to
\* the analyzer.
C4_BadBatchSizeIsError ==
    (pc = "done" /\ Chunked /\ max_files_per_batch <= 0) =>
        /\ ErrorReported
        /\ ~ ReportedCompleted
        /\ exit_code = 1
        /\ submitted = << >>

\* C6: when at least one analyzable file was gathered, the list returned by
\* analyze_repo has at least one finding.
C6_AggregateNonEmpty ==
    (BackInRun /\ github_token /\ all_files # << >>) => aggregate # << >>

ListingFailed == BackInRun /\ github_token /\ visited = {}

\* C8: when the repository cannot be reached or authenticated, an error is
\* reported, no finding list is produced or displayed as a result and the
\* process exits with a non-zero status.
C8_ListingFailureFatal ==
    (ListingFailed /\ pc = "done") =>
        /\ ErrorReported
        /\ aggregate = << >>
        /\ displayed = << >>
        /\ ~ ReportedCompleted
        /\ exit_code # 0

\* The walk ended in the outer except of get_repo_files
WalkAborted == visited # {} /\ Printed("ERROR: " \o GatherFailed)

\* n is below a node whose visit failed
RECURSIVE BelowError(_)
BelowError(n) ==
    /\ Tree[n].parent # 0
    /\ \/ Tree[n].parent \in node_errors
       \/ BelowError(Tree[n].parent)

\* C9: an error on one node of the walk skips only that file or subtree: the
\* walk is not aborted, every node outside the skipped subtrees is visited,
\* every analyzable file without an error outside them is gathered, and when
\* such a file exists the scan ends with at least one finding.
C9_NodeErrorIsolated ==
    node_errors # {} =>
        /\ ~ WalkAborted
        /\ (BackInRun \/ pc \in {"batching", "analyzing"}) =>
              /\ \A n \in DOMAIN Tree : ~ BelowError(n) => n \in visited
              /\ \A n \in DOMAIN Tree :
                    (Analyzable(n) /\ ~ BelowError(n) /\ n \notin node_errors) =>
                        \E k \in 1..Len(all_files) : all_files[k] = n
        /\ (BackInRun /\ all_files # << >>) => aggregate # << >>

----------------------------------------------------------------------------
(* C11 *)

Severities == {"Critical", "High", "Medium", "Low", "Unknown"}

Categories == {"Security", "Quality", "Data", "Error", "Info", "Unknown"}

IsStr(val) == val.t = "str"

\* C11: every finding of the list returned by analyze_repo has a severity
\* and a category of the two enumerations and a description, a location and
\* a recommendation that are strings, whatever the analyzer wrote.
C11_FindingsWellTyped ==
    BackInRun =>
        \A k \in 1..Len(aggregate) :
            LET f == aggregate[k].v
            IN  /\ IsStr(f["severity"]) /\ f["severity"].v \in Severities
                /\ IsStr(f["category"]) /\ f["category"].v \in Categories
                /\ IsStr(f["description"])
                /\ IsStr(f["location"])
                /\ IsStr(f["recommendation"])

----------------------------------------------------------------------------
(* C12 *)

\* The value is a string equal to the option when both are lowered
CaseInsensitiveEqual(val, option) == IsStr(val) /\ LowerWord(val.v) = LowerWord(option)

\* The finding passes the tests of the options that were given
Kept(f) ==
    /\ category # "" => CaseInsensitiveEqual(f.v["category"], category)
    /\ severity # "" => CaseInsensitiveEqual(f.v["severity"], severity)

\* C12: the findings handed to presentation are the findings of the
\* aggregate, in their order, whose category and severity equal the given
\* options without regard to case; by then every batch has been analyzed,
\* whatever the options are.
C12_FilterIsSubsequence ==
    /\ pc = "display" => findings = SelectSeq(aggregate, Kept)
    /\ (pc = "done" /\ displayed # << >>) => displayed = SelectSeq(aggregate, Kept)
    /\ (pc \in {"display", "done"} /\ batch_index > 0) =>
          /\ in_flight = 0
          /\ Len(outcomes) = Len(batches)

\* Both options given in another case than the analyzer's: of four findings
\* the one that is High and Security is displayed
C12_Witness ==
    /\ pc = "done" /\ exit_code = 0
    /\ category = "security" /\ severity = "HIGH"
    /\ aggregate = <<LowFinding, CriticalFinding,
                     Finding("High", "Security", "x", "Unknown", "No recommendation provided"),
                     NoIssuesFinding>>
    /\ displayed = <<aggregate[3]>>

----------------------------------------------------------------------------
(* C13 *)

\* The scan is one sequential process: a step that can be taken is taken,
\* and every call of a collaborator returns or raises
FairSpec == Init /\ [][Next]_vars /\ WF_vars(Next)

\* C13: every scan ends (run returns or exits); in the walk a node taken
\* from the queue was not taken before and no visited node is in the queue
\* again; the batch loop ends after one iteration per batch.
C13_ScanTerminates ==
    /\ <>(pc = "done")
    /\ [][contents' # contents =>
            /\ contents # << >> => Head(contents) \notin visited
            /\ \A k \in 1..Len(contents') : contents'[k] \notin visited']_vars
    /\ []((pc = "done" /\ batch_index > 0) =>
            /\ batch_index = Len(batches) + 1
            /\ Len(outcomes) = Len(batches))

\* The whole tree was walked and three batches were analyzed
C13_Witness ==
    /\ pc = "done"
    /\ visited = DOMAIN Tree
    /\ Len(batches) = 3
    /\ Len(outcomes) = 3

----------------------------------------------------------------------------
(* C14 *)

\* C14: the text of the analyzer is never given to eval: what
\* generate_scanned_result returns is a list, which analyze_repo of the
\* first variant takes as data, unchanged, and parse_findings decodes a
\* text with json.loads only.
C14_NeverEvaluated ==
    /\ ~ evaluated
    /\ ppc = "legacy" => legacy = scanned

\* A text with an object inside prose, which the search of analyze_repo
\* would match, went through analyze_repo of the first variant
C14_Witness ==
    /\ ppc = "legacy"
    /\ wrap = "prose_object"
    /\ src = <<ObjectWith(RequiredKeys)>>
    /\ re_search(completion.text).found
    /\ legacy = <<Finding("High", "Security", "x", "Unknown", "No recommendation provided")>>

----------------------------------------------------------------------------
(* C15 *)

\* The number of findings of fs whose severity is the level when lowered
RECURSIVE NumberOf(_, _)
NumberOf(fs, level) ==
    IF fs = << >> THEN 0
    ELSE (IF CaseInsensitiveEqual(Head(fs).v["severity"], level) THEN 1 ELSE 0)
         + NumberOf(Tail(fs), level)

\* The totals that belong to the final sequence of findings
TotalsOf(fs) ==
    [total |-> Len(fs), critical |-> NumberOf(fs, "critical"), high |-> NumberOf(fs, "high"),
     medium |-> NumberOf(fs, "medium"), low |-> NumberOf(fs, "low")]

Completed == pc = "done" /\ exit_code = 0

\* C15: a completed scan has displayed its final sequence of findings and
\* printed the total and the counts of critical, high, medium and low that
\* belong to it.
C15_DoneReportsCounts ==
    Completed =>
        /\ displayed = findings
        /\ summary = <<TotalsOf(findings)>>

\* C15 (amended): a completed scan with a non-empty final sequence has
\* displayed it and printed the total and the four counts that belong to it;
\* with an empty final sequence it has printed the message of a scan without
\* issues and no counts.
C15_DoneReportsCountsOrNoIssues ==
    Completed =>
        IF findings = << >>
        THEN /\ displayed = << >>
             /\ summary = << >>
             /\ Printed("SUCCESS: Scan completed! No issues found.")
        ELSE /\ displayed = findings
             /\ summary = <<TotalsOf(findings)>>
             /\ Printed("SUCCESS: Scan completed!")

\* An unfiltered scan of three batches ended with one finding of each of
\* Low, Critical and High and a fourth of another batch
C15_Witness ==
    /\ Completed
    /\ category = "" /\ severity = ""
    /\ Len(findings) = 4
    /\ summary = <<[total |-> 4, critical |-> 1, high |-> 1, medium |-> 0, low |-> 2]>>

----------------------------------------------------------------------------
(* C16 *)

\* C16: when the command has run past its timeout the process group is
\* ended and the response has status 504 and the output read so far; any
\* other failure of the execution (status -1) has status 500.
C16_TimeoutIs504 ==
    apc = "responded" =>
        /\ timed_out =>
              /\ process \in {"terminated", "killed"}
              /\ http.code = 504
              /\ http.body.partial_output = output_lines
        /\ (cmd_result.status = 0 - 1 /\ ~ timed_out) => http.code = 500

----------------------------------------------------------------------------
(* C17 *)

\* C17: the batches are given to the analyzer one after the other, each
\* once and in the order of chunk_files, and when analyze_repo returns every
\* batch was given to it, whatever the earlier batches came to (a request
\* that raised, a client that could not be made, no finding).
C17_EveryBatchAnalyzedOnce ==
    /\ analyzed = [k \in 1..Len(analyzed) |-> k]
    /\ \A i, j \in 1..Len(submitted) : i < j => submitted[i] < submitted[j]
    /\ Len(analyzed) <= Len(batches)
    /\ (BackInRun /\ batch_index > 0) => Len(analyzed) = Len(batches)

\* The client could not be made for batch 1 and the request of batch 2
\* raised; batch 3 was analyzed all the same
C17_Witness ==
    /\ pc = "done"
    /\ Len(batches) = 3
    /\ outcomes = <<"client", "raise", "text">>
    /\ returned[1] = << >>
    /\ analyzed = <<1, 2, 3>>
    /\ submitted = <<2, 3>>

----------------------------------------------------------------------------
(* C18, C19, C20 *)

\* The text, once stripped, is one JSON value
WholeTextIsJson == wrap \in {"object", "array", "padded", "bare", "findings_value"}

\* C18: when the whole text decodes, an object with a findings key whose
\* value is a sequence gives that sequence, an array gives itself and a
\* single object without a findings key gives the sequence of that object.
C18_FullDecodeShapes ==
    ppc \in {"scanned", "parsed", "legacy"} =>
        /\ WholeTextIsJson => step = 1
        /\ wrap \in {"object", "padded"} => extracted = List(src)
        /\ wrap = "array" => extracted = List(src)
        /\ (wrap = "bare" /\ IsDict(src[1])) => extracted = List(<<src[1]>>)

\* A single object without findings key was wrapped
C18_Witness ==
    /\ ppc = "parsed"
    /\ wrap = "bare"
    /\ src = <<ObjectWith(RequiredKeys)>>
    /\ step = 1
    /\ extracted = List(src)

\* The part of the text from the first bracket that has a closing bracket
\* of its kind after it to the last closing bracket of that kind
BracketedPart(text) ==
    LET opens == { i \in 1..Len(text) :
                     /\ text[i] \in {"{", "["}
                     /\ \E j \in (i + 1)..Len(text) : text[j] = Closer(text[i]) }
    IN  IF opens = {} THEN [found |-> FALSE, text |-> << >>]
        ELSE LET i == CHOOSE x \in opens : \A y \in opens : x <= y
                 closes == { j \in (i + 1)..Len(text) : text[j] = Closer(text[i]) }
                 j == CHOOSE x \in closes : \A y \in closes : y <= x
             IN  [found |-> TRUE, text |-> SubSeq(text, i, j)]

\* C19: the second step is taken only when the whole text does not decode;
\* it decodes the bracketed part of the text, from the first opening to the
\* last closing bracket, and shapes the value by the rules of the first
\* step.
C19_BracketedPartDecoded ==
    ppc \in {"scanned", "parsed", "legacy"} =>
        /\ step \in {2, 3} => ~ WholeTextIsJson
        /\ step = 2 =>
              LET part == BracketedPart(strip(completion.text))
              IN  /\ part.found
                  /\ json_loads(part.text).ok
                  /\ extracted = ShapeFindings(json_loads(part.text).val)
        /\ wrap \in {"prose_object", "prose_array"} =>
              /\ step = 2
              /\ extracted = List(src)
        /\ (wrap = "stray" /\ IsDict(src[1])) =>
              /\ step = 2
              /\ extracted = List(<<src[1]>>)

\* An array of two findings between words of prose was found and decoded
C19_Witness ==
    /\ ppc = "parsed"
    /\ wrap = "prose_array"
    /\ Len(src) = 2 /\ IsDict(src[1]) /\ IsDict(src[2])
    /\ step = 2
    /\ Len(parsed) = 2

\* C20: when the text has no bracketed part, or its bracketed part does not
\* decode, the result is the one finding (Medium, Quality, Repository-wide)
\* whose description is that structured results are unavailable.
C20_Step3Unavailable ==
    step = 3 => scanned = <<UnavailableFinding>>

\* C20 (amended): when the text has no bracketed part the result is the one
\* finding whose description is that structured results are unavailable;
\* when its bracketed part does not decode the result is the one finding
\* whose description is that the analysis completed with parsing issues;
\* both are Medium, Quality and Repository-wide.
C20_Step3Sentinel ==
    /\ step = 3 =>
          /\ Len(scanned) = 1
          /\ scanned[1].v["severity"] = Str("Medium")
          /\ scanned[1].v["category"] = Str("Quality")
          /\ scanned[1].v["location"] = Str("Repository-wide")
          /\ scanned[1].v["description"] =
                IF BracketedPart(strip(completion.text)).found
                THEN Str("Code analysis completed with parsing issues")
                ELSE Str("Code analysis completed but structured results unavailable")
    /\ (ppc \in {"scanned", "parsed", "legacy"} /\ wrap \in TextWraps \cup {"greedy"}) =>
          step = 3

\* The text is prose without brackets
C20_Witness ==
    /\ ppc = "parsed"
    /\ wrap = "prose"
    /\ step = 3
    /\ scanned = <<UnavailableFinding>>
    /\ parsed = scanned

----------------------------------------------------------------------------
(* C21, C22, C23 *)

\* The objects of the collection the decode ladder made, in order
ObjectsOf(val) ==
    IF Iterate(val).ok THEN SelectSeq(Iterate(val).items, IsDict) ELSE << >>

Normalized == ppc = "parsed" /\ completion.kind = "text" /\ Iterate(extracted).ok

\* C21: every object of the decoded collection gives one finding of the
\* normalized output, in its place, with the fields it has and the other
\* fields filled; an object without severity, category or description is
\* kept like any other.
C21_EveryObjectKept ==
    (Normalized /\ ObjectsOf(extracted) # << >>) =>
        LET objects == ObjectsOf(extracted)
        IN  /\ Len(scanned) = Len(objects)
            /\ Len(parsed) = Len(objects)
            /\ \A k \in 1..Len(objects) :
                  /\ IsCompleteFinding(parsed[k])
                  /\ \A key \in DOMAIN objects[k].v : parsed[k].v[key] = objects[k].v[key]

\* An object without any field and an object without severity were both
\* kept
C21_Witness ==
    /\ ppc = "parsed"
    /\ wrap = "array"
    /\ src = <<ObjectWith({}), ObjectWith({"category", "description"})>>
    /\ Len(parsed) = 2
    /\ parsed[1].v["severity"] = Str("Medium")
    /\ parsed[2].v["category"] = Str("Security")

\* C22: when the decoded collection has no object (an empty findings array,
\* or elements that are not objects), the result is the one finding Low,
\* Info, "No significant issues found".
C22_EmptyGivesNoIssues ==
    (Normalized /\ ObjectsOf(extracted) = << >>) =>
        /\ Len(scanned) = 1
        /\ scanned[1].v["severity"] = Str("Low")
        /\ scanned[1].v["category"] = Str("Info")
        /\ scanned[1].v["description"] = Str("No significant issues found")
        /\ parsed = scanned

\* An array of two numbers was normalized to the one finding
C22_Witness ==
    /\ ppc = "parsed"
    /\ wrap = "array"
    /\ src = <<Num, Num>>
    /\ extracted = List(<<Num, Num>>)
    /\ parsed = <<NoIssuesFinding>>

\* C23: filling a finding that has the five fields changes nothing: the
\* cleaning of generate_scanned_result and the normalization of
\* parse_findings return the findings of the output as they are, and
\* parse_findings returns the output of generate_scanned_result unchanged.
C23_FillingIdempotent ==
    ppc = "parsed" =>
        /\ parsed = scanned
        /\ \A k \in 1..Len(scanned) :
              /\ CleanFinding(scanned[k]) = scanned[k]
              /\ NormalizeFinding(scanned[k]) = scanned[k]
              /\ CleanFinding(CleanFinding(scanned[k])) = CleanFinding(scanned[k])
        /\ OrNoIssues(CleanFindings(scanned)) = scanned
        /\ parse_findings(List(parsed)) = parsed

\* Two findings, one written in full and one filled by the cleaning, went
\* through parse_findings
C23_Witness ==
    /\ ppc = "parsed"
    /\ wrap = "object"
    /\ src = <<ObjectWith(FindingKeys), ObjectWith(RequiredKeys)>>
    /\ parsed = <<Finding("High", "Security", "x", "src/a.py", "Fix it"),
                  Finding("High", "Security", "x", "Unknown", "No recommendation provided")>>

----------------------------------------------------------------------------
(* C24, C25, C28 *)

\* The number of findings of the batches before batch k
RECURSIVE Before(_)
Before(k) == IF k <= 1 THEN 0 ELSE Before(k - 1) + Len(returned[k - 1])

\* C24: the list returned by analyze_repo after the loop holds the findings
\* of batch 1, then those of batch 2, and so on, each batch's findings in
\* the order analyze_batch returned them, and nothing else.
C24_AggregateInBatchOrder ==
    (BackInRun /\ batch_index > 0) =>
        /\ Len(aggregate) = Before(Len(returned) + 1)
        /\ \A k \in 1..Len(returned) : \A m \in 1..Len(returned[k]) :
              aggregate[Before(k) + m] = returned[k][m]

\* Three batches gave two, one and one findings
C24_Witness ==
    /\ pc = "done"
    /\ [k \in 1..Len(returned) |-> Len(returned[k])] = <<2, 1, 1>>
    /\ returned[1] = <<LowFinding, CriticalFinding>>
    /\ aggregate[3] = returned[2][1]
    /\ aggregate[4] = returned[3][1]
    /\ aggregate[3] # aggregate[4]

\* C25: at most one completion request is in flight; while the request of
\* batch i is in flight, the findings of every batch before i have been
\* appended to the aggregate and no later batch has been submitted.
C25_OneCallInFlight ==
    /\ in_flight \in {0, 1}
    /\ in_flight = 1 =>
          /\ pc = "analyzing"
          /\ submitted[Len(submitted)] = batch_index
          /\ \A k \in 1..Len(submitted) : submitted[k] <= batch_index
          /\ Len(returned) = batch_index - 1
          /\ Len(all_findings) = Before(batch_index)

\* The request of batch 3 is in flight after batches 1 and 2 returned
\* findings
C25_Witness ==
    /\ in_flight = 1
    /\ batch_index = 3
    /\ submitted = <<1, 2, 3>>
    /\ Len(returned) = 2
    /\ returned[1] # << >> /\ returned[2] # << >>

\* C28: the aggregate changes only when analyze_batch has returned for one
\* more batch, and then by the whole list of that batch put at its end;
\* while a batch is being analyzed it is the findings of the batches done
\* so far.
C28_AppendOnlyWholeBatches ==
    /\ [][all_findings' # all_findings =>
            /\ pc = "analyzing"
            /\ Len(returned') = Len(returned) + 1
            /\ all_findings' = all_findings \o returned'[Len(returned')]]_vars
    /\ [](pc = "analyzing" => all_findings = Concat(returned))

\* Batch 2 of 3 is being analyzed and the aggregate is the two findings of
\* batch 1
C28_Witness ==
    /\ pc = "analyzing"
    /\ in_flight = 1
    /\ Len(batches) = 3
    /\ batch_index = 2
    /\ returned = << <<LowFinding, CriticalFinding>> >>
    /\ all_findings = <<LowFinding, CriticalFinding>>

----------------------------------------------------------------------------
(* C26 *)

\* The repository is being reached or walked
InWalk == pc \in {"listing", "walking"}

\* C26: no batch is given to the analyzer while entries of the repository
\* are still to be visited, and once a batch has been given to it no entry
\* is visited, listed or read any more.
C26_WalkThenAnalyze ==
    /\ [](InWalk => (analyzed = << >> /\ submitted = << >> /\ in_flight = 0))
    /\ [](submitted # << >> => (contents = << >> /\ ~InWalk))
    /\ [][submitted' # submitted => (contents = << >> /\ pc = "analyzing")]_vars
    /\ [][submitted # << >> => UNCHANGED walkVars]_vars

\* The request of the first batch is in flight after the whole tree was
\* visited
C26_Witness ==
    /\ in_flight = 1
    /\ submitted = <<1>>
    /\ visited = DOMAIN Tree
    /\ contents = << >>
    /\ all_files # << >>

----------------------------------------------------------------------------
(* C27 *)

\* The place of a position of the scan in the order of run and analyze_repo
Rank(position) ==
    CASE position = "start" -> 0
      [] position = "listing" -> 1
      [] position = "walking" -> 2
      [] position = "batching" -> 3
      [] position = "analyzing" -> 4
      [] position = "filter" -> 5
      [] position = "display" -> 6
      [] position = "done" -> 7

\* The scan never goes back to an earlier position
NeverBack == [][Rank(pc') >= Rank(pc)]_vars

\* An entry has been through is_analyzable_file
FilteringBegun == \E n \in visited : Tree[n].type = "file"

\* The step lists a directory
ListsDir == \E n \in visited' \ visited : Tree[n].type = "dir"

\* The findings of a batch have been put into the aggregate
AggregatingBegun == returned # << >>

\* C27 as stated: the scan never goes back; listing is over when filtering
\* begins, so no directory is listed after a file went through the filter;
\* analyzing is over when aggregating begins, so no batch is analyzed after
\* the findings of a batch were put into the aggregate.
C27_LinearPhases ==
    /\ NeverBack
    /\ [][FilteringBegun => ~ListsDir]_vars
    /\ [][AggregatingBegun => submitted' = submitted]_vars

\* C27, amended: the scan never goes back from one of Idle, the walk,
\* batching, the loop over the batches, the filters, Done to an earlier one
\* and steps either to the next one or ahead to the filters or the end;
\* inside the walk the visited entries only grow, inside the loop the batch
\* counter only grows and the aggregate only gets longer.
C27_ForwardOnly ==
    /\ NeverBack
    /\ [][pc' # pc => (Rank(pc') = Rank(pc) + 1 \/ pc' \in {"filter", "done"})]_vars
    /\ [][visited \subseteq visited']_vars
    /\ [][pc = "analyzing" =>
            (batch_index' >= batch_index /\ Len(all_findings') >= Len(all_findings))]_vars

\* A scan at its end after lib was listed behind a.py and b.png and after
\* batch 2 was analyzed behind the aggregation of batch 1
C27_Witness ==
    /\ pc = "done"
    /\ exit_code = 0
    /\ Tree[3].type = "dir" /\ {1, 2, 3, 5} \subseteq visited
    /\ submitted = <<1, 2>>
    /\ Len(returned) = 2 /\ returned[1] # << >>
    /\ displayed # << >>

----------------------------------------------------------------------------
(* C29 *)

\* get_repo_files returned an empty list
NoFileGathered ==
    /\ BackInRun /\ github_token
    /\ visited # {} /\ ~WalkAborted
    /\ contents = << >> /\ all_files = << >>

\* C29: when the walk gathers no file, analyze_repo returns an empty list,
\* no batch is built or given to the analyzer, and run ends with the
\* message of a scan without issues and exit status 0, without a finding,
\* a total or counts.
C29_NoFilesNoCalls ==
    NoFileGathered =>
        /\ aggregate = << >> /\ findings = << >>
        /\ batches = << >> /\ analyzed = << >> /\ submitted = << >> /\ in_flight = 0
        /\ displayed = << >> /\ summary = << >>
        /\ ~ErrorReported
        /\ pc = "done" =>
              /\ Printed("SUCCESS: Scan completed! No issues found.")
              /\ ~Printed("results")
              /\ exit_code = 0

\* The scan is over after a walk in which no file could be read
C29_Witness ==
    /\ pc = "done"
    /\ NoFileGathered
    /\ {1, 2, 4} \subseteq visited
    /\ Printed("WARNING: No analyzable files found")
    /\ console[Len(console)] = "SUCCESS: Scan completed! No issues found."
    /\ exit_code = 0

----------------------------------------------------------------------------
(* C30 *)

\* The step is a call of the method
Called(method) ==
    /\ Len(git_calls') = Len(git_calls) + 1
    /\ git_calls'[Len(git_calls')].method = method

\* The call of the step did not succeed
CallFailed == ~ git_calls'[Len(git_calls')].ok

\* A call of validate_repo or init_repo on the instance succeeded
Opened ==
    \E k \in 1..Len(git_calls) :
        git_calls[k].method \in {"validate_repo", "init_repo"} /\ git_calls[k].ok

\* C30: before a validate_repo or init_repo call succeeded, get_staged_diff,
\* get_recent_commits and create_commit raise ValueError("Repository not
\* initialized") and give no command to git, and after one succeeded they
\* do not raise it; a validate_repo or init_repo call that fails returns
\* (False, message) without raising and leaves self.repo as it was.
C30_GuardedByRepo ==
    /\ [][\A method \in {"get_staged_diff", "get_recent_commits", "create_commit"} :
            Called(method) =>
                IF Opened
                THEN git_returned' # Raises(NotInitialized) /\ git_ops' # git_ops
                ELSE git_returned' = Raises(NotInitialized) /\ git_ops' = git_ops]_vars
    /\ [][\A method \in {"validate_repo", "init_repo"} :
            (Called(method) /\ CallFailed) =>
                /\ git_returned'.kind = "tuple" /\ git_returned'.ok = FALSE
                /\ repo' = repo]_vars
    /\ [](repo # 0 <=> Opened)

\* A diff was refused, a validation succeeded and a later validation failed
\* and left the Repo object of the second call in place
C30_Witness ==
    /\ git_calls = <<[method |-> "get_staged_diff", ok |-> FALSE],
                     [method |-> "validate_repo", ok |-> TRUE],
                     [method |-> "validate_repo", ok |-> FALSE]>>
    /\ git_ops = << >>
    /\ repo = 2
    /\ git_returned = Tuple(FALSE, "Path does not exist")

====
